---- MODULE Spec2Model ----
(***************************************************************************)
(* State-machine model of the AI dynamic plugin:                           *)
(*   core/memory.py     MemorySystem   (chat_records, daily_summaries)     *)
(*   core/scheduler.py  TaskScheduler  (four timer loops, auto-post gate)  *)
(*   main.py            AIDynamicPlugin (message handler, manual commands) *)
(*                                                                         *)
(* Time is counted in minutes.  `now` is the UTC clock; datetime.now() of  *)
(* the Python code is the naive local time now + tz, while SQLite's        *)
(* CURRENT_TIMESTAMP and DATE(message_time) are UTC.                       *)
(*                                                                         *)
(* An action is one handler run from one suspension point (a real await    *)
(* on the network or on a sleep) to the next; awaits on coroutines that    *)
(* only do synchronous sqlite3 work never yield to the event loop.         *)
(***************************************************************************)
EXTENDS Integers, Sequences, FiniteSets, TLC

\* ------------------------------------------------------------------ bounds
\* Days the ingestion runs cover.
IngestDays == 2
\* Days the summary runs cover.
SummaryDays == 2
\* Rows the chat_records table holds at most.
MaxRecords == 2
\* Rows the daily_summaries table holds at most.
MaxSummaries == 2

\* ---------------------------------------------------------------- constants
DayMinutes == 1440
HourMinutes == 60
\* Clock step of the ingestion runs: a third of a day.
IngestStep == DayMinutes \div 3

None == "None"

\* Users that send messages.
Users == {"u1", "u2"}
\* LLM completions: two different texts.
Texts == {"t1", "t2"}
\* What one text_chat call of the provider can do: a text, whitespace only,
\* a None response, or an exception.
LlmOutcomes == Texts \cup {"", None, "raise"}
\* The plugin's llm_client: none configured, CustomAPIClient, or the host's
\* provider.
LlmKinds == {"none", "custom", "provider"}
\* Offsets of the local zone from UTC: UTC itself and UTC+8.
TzOffsets == {0, 480}
\* A configured time string that strptime(..., '%H:%M') rejects.
Malformed == 0 - 1
\* last_summary_date before the first pass (None).
NoDate == 0 - 99

VARIABLES
    now,                \* UTC clock, minutes
    tz,                 \* local zone offset, minutes
    config,             \* the plugin configuration (read-only dict)
    llm_client,         \* AIDynamicPlugin.llm_client, one of LlmKinds
    chat_records,       \* table chat_records, rows in id order
    daily_summaries,    \* table daily_summaries, rows in id order
    gen,                \* generate_daily_summary calls, by caller
    last_post_times,    \* TaskScheduler.last_post_times (local times)
    auto_post,          \* the _auto_post_task coroutine: position, locals
    manual_post,        \* the manual_post command handler: position, locals
    running,            \* TaskScheduler.running
    tasks,              \* TaskScheduler.tasks: the list of task ids
    spawned,            \* every asyncio task created so far, by task id
    stop_call,          \* the stop() coroutine: position, awaited tasks
    stop_returns,       \* stop() calls that have returned (line 55's log)
    last_summary_date,  \* TaskScheduler.last_summary_date
    summary_loop,       \* one _daily_summary_task iteration: position, locals
    passes,             \* the dates _perform_daily_summary was started on
    ai_summary,         \* what AIGenerator.generate_memory_summary returned
    at,                 \* where each scheduler task stands in its loop body
    gateway,            \* one QZoneAPI request: reply, call, result
    comment_loop,       \* the _auto_comment_task coroutine: position, locals
    summary_cmd,        \* the generate command: what it told the user
    cleanup_loop,       \* the _cleanup_task coroutine: position, locals
    auto_published,     \* local times of every successful automatic publish
    background,         \* _start_background_tasks and terminate: positions
    post_scheduler      \* the PostScheduler object and the tasks it created

envVars == <<tz, config, llm_client>>
storeVars == <<chat_records, daily_summaries>>
postVars == <<last_post_times, auto_post, manual_post>>
lifeVars == <<running, tasks, spawned, stop_call, stop_returns>>
loopVars == <<last_summary_date, summary_loop, passes, ai_summary>>
sweepVars == <<at, gateway, comment_loop, summary_cmd, cleanup_loop>>
auxVars == <<auto_published, background, post_scheduler>>
vars == <<now, envVars, storeVars, gen, postVars, lifeVars, loopVars,
          sweepVars, auxVars>>

\* No loop body is traced.
SweepIdle ==
    /\ at = <<>>
    /\ gateway = [reply |-> "none", call |-> "none", ok |-> FALSE,
                  listed |-> <<>>]
    /\ comment_loop = [pc |-> "wake", user |-> 0, dynamics |-> <<>>,
                       idx |-> 0, text |-> None, comments |-> <<>>,
                       list_calls |-> 0, llm_calls |-> 0]
    /\ summary_cmd = "none"
    /\ cleanup_loop = [pc |-> "wake", purged |-> FALSE, sleep |-> 0,
                       polls |-> 0]

\* The plugin object is not followed: no constructor has run, terminate()
\* has not been called.
BackgroundNone == [start |-> "none", terminate |-> "none"]

\* PostScheduler.__init__: not running, no tasks.  jobs holds every asyncio
\* task the object created, stop is the position of stop_scheduler, plans
\* and calls record the post plans made and the callbacks invoked.
PostSchedulerNew ==
    [running |-> FALSE, tasks |-> <<>>, jobs |-> <<>>, stop |-> "idle",
     plans |-> <<>>, calls |-> <<>>]

\* Every automatic publish so far is still in last_post_times; the plugin
\* object and the PostScheduler are not followed.
AuxIdle ==
    /\ auto_published = last_post_times
    /\ background = BackgroundNone
    /\ post_scheduler = PostSchedulerNew

\* ------------------------------------------------------------------- time
\* datetime.now(): naive local time.
LocalNow == now + tz
\* .date() / strftime('%Y-%m-%d') / SQLite DATE(): the day number.
DateOf(t) == t \div DayMinutes
\* .time(): minutes since midnight.
TimeOfDay(t) == t % DayMinutes

\* ------------------------------------------------------------ record store
\* is_user_in_whitelist
IsUserInWhitelist(u) ==
    \E i \in DOMAIN config.user_whitelist : config.user_whitelist[i] = u

\* get_daily_message_count: COUNT(*) WHERE user_id = ? AND DATE(message_time) = ?
\* (message_time is the UTC CURRENT_TIMESTAMP of the insert).
GetDailyMessageCount(u, d) ==
    Cardinality({i \in DOMAIN chat_records :
        /\ chat_records[i].user_id = u
        /\ DateOf(chat_records[i].message_time) = d})

\* get_messages_by_date: same selection, as rows.
GetMessagesByDate(u, d) ==
    SelectSeq(chat_records,
        LAMBDA r : r.user_id = u /\ DateOf(r.message_time) = d)

\* The guard of save_message that refuses a record: memory disabled, sender
\* not allow-listed, or today's count (local date against UTC-dated rows)
\* at the cap.
SaveMessageRefused(u) ==
    \/ ~config.enable_memory
    \/ ~IsUserInWhitelist(u)
    \/ GetDailyMessageCount(u, DateOf(LocalNow)) >= config.max_daily_messages

\* save_message(user_id, ...): db_ok = FALSE is a failing INSERT, which is
\* logged and swallowed.
SaveMessage(u, db_ok) ==
    IF SaveMessageRefused(u) \/ ~db_ok
    THEN UNCHANGED chat_records
    ELSE chat_records' = Append(chat_records,
                [user_id |-> u, message_time |-> now])

\* A lookup that never finds a row.
NeverHasSummary(u, d) == FALSE

\* get_daily_summary: the first row for (u, d), or None.
HasSummary(u, d) ==
    \E i \in DOMAIN daily_summaries :
        daily_summaries[i].user_id = u /\ daily_summaries[i].summary_date = d

GetDailySummary(u, d) ==
    IF HasSummary(u, d)
    THEN LET i == CHOOSE i \in DOMAIN daily_summaries :
                    /\ daily_summaries[i].user_id = u
                    /\ daily_summaries[i].summary_date = d
                    /\ \A j \in DOMAIN daily_summaries :
                         (daily_summaries[j].user_id = u
                          /\ daily_summaries[j].summary_date = d) => i <= j
         IN daily_summaries[i]
    ELSE None

\* A table without the UNIQUE(user_id, summary_date) constraint: REPLACE
\* finds no conflicting row to delete.
InsertWithoutUnique(table, row) == Append(table, row)

\* INSERT OR REPLACE under UNIQUE(user_id, summary_date): the conflicting
\* row is deleted and the new row is inserted.
InsertOrReplace(table, row) ==
    Append(SelectSeq(table,
               LAMBDA r : ~(r.user_id = row.user_id
                            /\ r.summary_date = row.summary_date)),
           row)

\* save_daily_summary(user_id, date, summary, message_count)
SaveDailySummary(u, d, c, n, db_ok) ==
    IF ~db_ok
    THEN UNCHANGED daily_summaries
    ELSE daily_summaries' = InsertOrReplace(daily_summaries,
                [user_id |-> u, summary_date |-> d,
                 summary_content |-> c, message_count |-> n])

\* ------------------------------------------------------------------- LLM
\* `if summary:` / `if content:`: a non-empty string.
Truthy(x) == x \in Texts

\* AIDynamicPlugin._call_llm_unified: "" when no client is configured or the
\* call fails.  CustomAPIClient.text_chat takes no session_id keyword, so
\* the call with session_id=None raises TypeError before any request.
CallLlmUnified(outcome) ==
    IF llm_client = "provider" /\ outcome \in Texts THEN outcome ELSE ""

\* The normalisation of TaskScheduler._generate_personalized_dynamic and
\* MemorySystem._call_llm_for_summary for a client that is not the plugin:
\* None without a text_chat attribute, on TypeError, on an exception and on
\* a None response; otherwise the stripped text.
CallTextChat(client, outcome) ==
    IF client = "provider" /\ outcome \in Texts \cup {""} THEN outcome ELSE None

\* _call_llm_for_summary(llm_client, prompt); client "plugin" is the plugin
\* object itself, which has _call_llm_unified.
CallLlmForSummary(client, outcome) ==
    IF client = "plugin" THEN CallLlmUnified(outcome)
    ELSE CallTextChat(client, outcome)

\* Whether a call through `client` reaches the network await of
\* provider.text_chat (the only real suspension of an LLM call).
LlmSuspends(client) ==
    \/ client = "provider"
    \/ client = "plugin" /\ llm_client = "provider"

\* ------------------------------------------------- generate_daily_summary
\* Loop A's pass (scheduler.py:97) and the generate command (main.py:382).
GenCallers == {"loop_a", "manual"}

\* The llm_client argument of each caller.
ClientOf(c) == IF c = "manual" THEN "plugin" ELSE llm_client

\* A caller's frame: where it is (idle: not in the call, its last return
\* value in result; llm: suspended in the LLM call) and its locals.
GenIdle == [pc |-> "idle", user_id |-> None, date |-> 0, count |-> 0,
            result |-> None]

GenReturn(c, value) == gen' = [gen EXCEPT ![c] = [GenIdle EXCEPT !.result = value]]

\* A completion that saves whatever the LLM returned before looking at it.
GenCompleteSavesFirst(c, u, d, n, summary, db_ok) ==
    /\ SaveDailySummary(u, d, summary, n, db_ok)
    /\ GenReturn(c, IF Truthy(summary) THEN summary ELSE None)

\* Lines 173-186: the LLM's answer `summary` has arrived.
GenComplete(c, u, d, n, summary, db_ok) ==
    IF Truthy(summary)
    THEN /\ SaveDailySummary(u, d, summary, n, db_ok)
         /\ GenReturn(c, summary)
    ELSE /\ UNCHANGED daily_summaries
         /\ GenReturn(c, None)

\* Lines 134-175: up to the await of the LLM call.
GenerateDailySummary(c, u, d, db_ok) ==
    LET messages == GetMessagesByDate(u, d)
    IN  IF HasSummary(u, d)
        THEN /\ GenReturn(c, GetDailySummary(u, d).summary_content)
             /\ UNCHANGED daily_summaries
        ELSE IF messages = <<>>
        THEN /\ GenReturn(c, None)
             /\ UNCHANGED daily_summaries
        ELSE IF LlmSuspends(ClientOf(c))
        THEN /\ gen' = [gen EXCEPT ![c] = [pc |-> "llm", user_id |-> u,
                            date |-> d, count |-> Len(messages),
                            result |-> None]]
             /\ UNCHANGED daily_summaries
        ELSE GenComplete(c, u, d, Len(messages),
                         CallLlmForSummary(ClientOf(c), "raise"), db_ok)

\* A purge that deletes the oldest record each time it runs.
DropOldest(records) == IF records = <<>> THEN <<>> ELSE Tail(records)

\* DELETE FROM chat_records WHERE DATE(message_time) < cutoff_date
PurgeRecords(records) ==
    LET cutoff == DateOf(LocalNow) - config.memory_days
    IN  SelectSeq(records, LAMBDA r : ~(DateOf(r.message_time) < cutoff))

\* DELETE FROM daily_summaries WHERE summary_date < summary_cutoff
PurgeSummaries(summaries) ==
    LET summary_cutoff == DateOf(LocalNow) - config.memory_days * 2
    IN  SelectSeq(summaries, LAMBDA r : ~(r.summary_date < summary_cutoff))

\* cleanup_old_data: one transaction; a failure rolls both deletes back.
CleanupOldData(db_ok) ==
    IF ~db_ok
    THEN UNCHANGED <<chat_records, daily_summaries>>
    ELSE /\ chat_records' = PurgeRecords(chat_records)
         /\ daily_summaries' = PurgeSummaries(daily_summaries)

\* -------------------------------------------------------- auto-post gate
\* random.random() < 0.3 in tenths: the draw d stands for [d/10, (d+1)/10).
Draws == 0 .. 9
PostChanceTenths == 3
\* last_post_times[-10:]
KeepPosts == 10
\* get_recent_summaries(user_id, 7)
RecentDays == 7

\* today_posts = [t for t in self.last_post_times if t.date() == today]
TodayPosts ==
    SelectSeq(last_post_times, LAMBDA t : DateOf(t) = DateOf(LocalNow))

\* A quota test that lets one post too many through.
QuotaReachedOffByOne == Len(TodayPosts) > config.daily_post_count

\* len(today_posts) >= daily_count
QuotaReached == Len(TodayPosts) >= config.daily_post_count

\* A window test that is met on either side of the window.
InWindowEitherEnd ==
    \/ config.start_time <= TimeOfDay(LocalNow)
    \/ TimeOfDay(LocalNow) <= config.end_time

\* start_time <= current_time <= end_time
InWindow ==
    /\ config.start_time <= TimeOfDay(LocalNow)
    /\ TimeOfDay(LocalNow) <= config.end_time

\* The oldest kept post as the spacing reference.
OldestOf(seq) == seq[1]

\* max(self.last_post_times)
MaxOf(seq) ==
    CHOOSE t \in {seq[i] : i \in DOMAIN seq} :
        \A i \in DOMAIN seq : seq[i] <= t

\* A spacing test that takes min_interval_hours for minutes.
TooSoonInMinutes ==
    /\ last_post_times # <<>>
    /\ LocalNow - MaxOf(last_post_times) < config.min_interval_hours

\* datetime.now() - last_post < timedelta(hours=min_interval)
TooSoon ==
    /\ last_post_times # <<>>
    /\ LocalNow - MaxOf(last_post_times)
         < config.min_interval_hours * HourMinutes

\* datetime.strptime raises ValueError on a malformed start_time or
\* end_time; the quota test comes before the parse.
GateRaises ==
    /\ ~QuotaReached
    /\ config.start_time = Malformed \/ config.end_time = Malformed

\* _should_post_dynamic, for one random draw, when it returns.
ShouldPostDynamic(draw) ==
    IF QuotaReached THEN FALSE
    ELSE IF ~InWindow THEN FALSE
    ELSE IF TooSoon THEN FALSE
    ELSE draw < PostChanceTenths

\* ------------------------------------------------------ post composition
\* A gateway that takes its user agent alone as a session.
ConfiguredWithoutCookie == TRUE

\* QZoneAPI.is_configured (the user agent has a non-empty default).
IsConfigured == config.qq_cookies # ""

\* get_recent_summaries(u, days): the rows of u dated within `days` days.
GetRecentSummaries(u, days) ==
    SelectSeq(daily_summaries,
        LAMBDA r : r.user_id = u /\ r.summary_date >= DateOf(LocalNow) - days)

\* TaskScheduler._generate_general_dynamic: the scheduler's pool.
GeneralTopics ==
    {"topic1", "topic2", "topic3", "topic4", "topic5", "topic6", "topic7"}

\* AIDynamicPlugin._generate_general_dynamic: the plugin's pool.
PluginTopics ==
    {"plugin1", "plugin2", "plugin3", "plugin4", "plugin5", "plugin6"}

\* A branch test that sends every user to the LLM.
UseGeneralNever(summaries) == FALSE

\* `if not recent_summaries:` / `if not summaries:`
UseGeneral(summaries) == summaries = <<>>

\* random.choice(whitelist); an empty list never gets that far.
WhitelistChoices ==
    IF config.user_whitelist = <<>> THEN {None}
    ELSE {config.user_whitelist[i] : i \in DOMAIN config.user_whitelist}

\* random.choice(general_topics) where the iteration gets to it (None
\* stands for no pick made).
TopicChoices(pool, draw, u) ==
    IF /\ config.enable_auto_post
       /\ ~GateRaises
       /\ ShouldPostDynamic(draw)
       /\ IsConfigured
       /\ config.user_whitelist # <<>>
       /\ UseGeneral(GetRecentSummaries(u, RecentDays))
    THEN pool ELSE {None}

\* The frame of one _auto_post_task iteration.  pc: wake (about to run the
\* loop body), llm / publish (suspended in that call), sleep (in
\* asyncio.sleep for `sleep` minutes).  gate is what _should_post_dynamic
\* did in this iteration (pass, block, or raise: the ValueError went to the
\* loop's handler), llm_calls and publish_calls count the
\* provider.text_chat and publish_dynamic calls it made, published is what
\* publish_dynamic returned (none, yes, no).
AutoPostStart ==
    [pc |-> "wake", gate |-> "none", user_id |-> None, content |-> None,
     llm_calls |-> 0, publish_calls |-> 0, published |-> "none",
     sleep |-> 0]

PostSleep == 30
DisabledSleep == 60

\* The iteration ends: asyncio.sleep(1800).
AutoPostToSleep(frame) == [frame EXCEPT !.pc = "sleep", !.sleep = PostSleep]

\* Lines 116-190 of one iteration, up to its first suspension, for one
\* random draw, one chosen user and one chosen generic topic.
AutoPostBody(draw, u, topic) ==
    IF ~config.enable_auto_post
    THEN [AutoPostStart EXCEPT !.pc = "sleep", !.sleep = DisabledSleep]
    ELSE IF GateRaises
    THEN AutoPostToSleep([AutoPostStart EXCEPT !.gate = "raise"])
    ELSE IF ~ShouldPostDynamic(draw)
    THEN AutoPostToSleep([AutoPostStart EXCEPT !.gate = "block"])
    ELSE IF ~IsConfigured \/ config.user_whitelist = <<>>
    THEN AutoPostToSleep([AutoPostStart EXCEPT !.gate = "pass"])
    ELSE IF UseGeneral(GetRecentSummaries(u, RecentDays))
    THEN [AutoPostStart EXCEPT !.pc = "publish", !.gate = "pass",
              !.user_id = u, !.content = topic, !.publish_calls = 1]
    ELSE IF llm_client = "provider"
    THEN [AutoPostStart EXCEPT !.pc = "llm", !.gate = "pass",
              !.user_id = u, !.llm_calls = 1]
    ELSE AutoPostToSleep([AutoPostStart EXCEPT !.gate = "pass",
              !.user_id = u])

\* Lines 187-190: _generate_personalized_dynamic has returned `content`.
AutoPostAfterLlm(content) ==
    IF Truthy(content)
    THEN [auto_post EXCEPT !.pc = "publish", !.content = content,
              !.publish_calls = 1]
    ELSE AutoPostToSleep([auto_post EXCEPT !.content = content])

\* A record of posts that is never cut.
RecordPostUncut(times, t) == Append(times, t)

\* Lines 192-194: append now, keep the last ten.
RecordPost(times, t) ==
    LET all == Append(times, t)
    IN  IF Len(all) <= KeepPosts THEN all
        ELSE SubSeq(all, Len(all) - KeepPosts + 1, Len(all))

\* A tick that records the attempt whether or not it was published.
AfterPublishAlways(times, success, t) == RecordPost(times, t)

\* Lines 190-197: `if success:` record the post, else only log.
AfterPublish(times, success, t) ==
    IF success THEN RecordPost(times, t) ELSE times

\* ------------------------------------------------------ manual_post command
ManualIdle == [pc |-> "idle", user_id |-> None, content |-> None,
               llm_calls |-> 0, reply |-> "none"]

\* _generate_dynamic_for_user up to the LLM call: the generic content it
\* returns at once, or None when it goes on to the LLM.
GenericForUser(u, topic) ==
    IF ~IsUserInWhitelist(u) THEN topic
    ELSE IF UseGeneral(GetRecentSummaries(u, RecentDays)) THEN topic
    ELSE IF llm_client # "provider" THEN topic
    ELSE None

\* A command that records its publish as Loop B does.
CommandRecorded(times, success, t) == AfterPublish(times, success, t)

\* main.py:171-176 and 207-212: after publish_dynamic the commands only
\* reply; the scheduler's last_post_times is not theirs to touch.
CommandPublished(times, success, t) == times

\* post_with_images(event, content) up to its first suspension: `given` is
\* the content argument, `images` whether the message carries an image,
\* `caption` the pick of _generate_image_caption.
PostWithImagesBody(given, images, caption) ==
    IF ~IsConfigured
    THEN [ManualIdle EXCEPT !.reply = "not_configured"]
    ELSE IF ~images
    THEN [ManualIdle EXCEPT !.reply = "no_images"]
    ELSE IF given # ""
    THEN [ManualIdle EXCEPT !.pc = "publish", !.content = given]
    ELSE IF llm_client # "none"
    THEN [ManualIdle EXCEPT !.pc = "publish", !.content = caption]
    ELSE [ManualIdle EXCEPT !.pc = "publish", !.content = "caption0"]

\* manual_post(event, content) up to its first suspension; `given` is the
\* content argument ("" when none), `topic` the generic pick.
ManualPostBody(u, given, topic) ==
    IF ~IsConfigured
    THEN [ManualIdle EXCEPT !.reply = "not_configured"]
    ELSE IF given # ""
    THEN [ManualIdle EXCEPT !.pc = "publish", !.content = given]
    ELSE IF llm_client = "none"
    THEN [ManualIdle EXCEPT !.reply = "no_llm"]
    ELSE IF GenericForUser(u, topic) # None
    THEN [ManualIdle EXCEPT !.pc = "publish", !.user_id = u,
              !.content = GenericForUser(u, topic)]
    ELSE [ManualIdle EXCEPT !.pc = "llm", !.user_id = u, !.llm_calls = 1]

\* ------------------------------------------------- Loop A: daily summary
\* The frame of one _daily_summary_task iteration.  pc: wake (about to run
\* the loop body), pass (inside _perform_daily_summary, before the user at
\* idx), llm (suspended in that user's LLM call), sleep.  today is
\* today_str, date is `yesterday`, attempts the users generate_daily_summary
\* was called for in this pass, raised whether the body raised.
SummaryLoopStart ==
    [pc |-> "wake", idx |-> 0, today |-> NoDate, date |-> NoDate,
     attempts |-> <<>>, raised |-> FALSE, sleep |-> 0]

\* No pass has run and nothing was summarised.
LoopIdle ==
    /\ last_summary_date = NoDate
    /\ summary_loop = SummaryLoopStart
    /\ passes = <<>>
    /\ ai_summary = None

\* asyncio.sleep(300) between checks.
SummarySleep == 5

\* A test of the time of day alone.
PassDueEveryPoll == TimeOfDay(LocalNow) >= config.summary_time

\* now.time() >= summary_time and self.last_summary_date != today_str
PassDue ==
    /\ TimeOfDay(LocalNow) >= config.summary_time
    /\ last_summary_date # DateOf(LocalNow)

\* Lines 60-78 of one iteration, up to the call of _perform_daily_summary
\* or the sleep.
SummaryLoopBody ==
    IF ~config.enable_memory
    THEN [SummaryLoopStart EXCEPT !.pc = "sleep", !.sleep = DisabledSleep]
    ELSE IF config.summary_time = Malformed
    THEN [SummaryLoopStart EXCEPT !.pc = "sleep", !.raised = TRUE,
              !.sleep = SummarySleep]
    ELSE IF PassDue
    THEN [SummaryLoopStart EXCEPT !.pc = "pass", !.idx = 1,
              !.today = DateOf(LocalNow), !.date = DateOf(LocalNow) - 1]
    ELSE [SummaryLoopStart EXCEPT !.pc = "sleep", !.sleep = SummarySleep]

\* A pass that gives up at the first user without a summary.
PassStopsAtFailure(frame, summary) ==
    IF Truthy(summary)
    THEN [frame EXCEPT !.pc = "pass", !.idx = @ + 1]
    ELSE [frame EXCEPT !.pc = "pass", !.idx = Len(config.user_whitelist) + 1]

\* Lines 100-107: whatever generate_daily_summary returned, the for loop
\* goes on to the next user.
PassAdvance(frame, summary) == [frame EXCEPT !.pc = "pass", !.idx = @ + 1]

\* A loop that never records the day of its pass.
PassNotRecorded(frame) == last_summary_date

\* Line 78: self.last_summary_date = today_str, after the pass.
PassRecorded(frame) == frame.today

\* ------------------------------------ AIGenerator.generate_memory_summary
\* The texts generate_memory_summary returns when it has no summary.
FailureTexts == {"no provider text", "not assistant text", "exception text"}

\* ai_generator.py:58-92, for a provider that is there or not and one
\* outcome of its text_chat ("err_role": a response whose role is not
\* assistant).
GenerateMemorySummary(provider, outcome) ==
    IF ~provider THEN "no provider text"
    ELSE IF outcome \in {"raise", None} THEN "exception text"
    ELSE IF outcome = "err_role" THEN "not assistant text"
    ELSE outcome

\* -------------------------------------------------------------- lifecycle
\* The four timer loops start() spawns, in list order.
Loops == <<"daily_summary", "auto_post", "auto_comment", "cleanup">>

\* An asyncio task of one loop.  pc: new (created, not yet run), sleep
\* (suspended in asyncio.sleep), call (suspended in a collaborator call),
\* done.  cancel: task.cancel() was called and the CancelledError is still
\* to be thrown at the suspension point.  last: how a task that can still
\* run last resumed (none, ok, error: an exception reached the loop).
NewTask(loop) ==
    [loop |-> loop, pc |-> "new", cancel |-> FALSE, last |-> "none"]

\* No scheduler task exists and no stop() is in progress.
LifeIdle ==
    /\ tasks = <<>>
    /\ spawned = <<>>
    /\ stop_call = [pc |-> "idle", waits |-> {}]
    /\ stop_returns = 0

\* The task ids in self.tasks.
TaskIds(list) == {list[i] : i \in DOMAIN list}

\* start(): lines 27-39.
Start ==
    IF running
    THEN UNCHANGED <<running, tasks, spawned>>
    ELSE /\ running' = TRUE
         /\ spawned' = spawned \o [i \in 1 .. Len(Loops) |-> NewTask(Loops[i])]
         /\ tasks' = [i \in 1 .. Len(Loops) |-> Len(spawned) + i]

\* for task in self.tasks: if not task.done(): task.cancel()
CancelAll(list) ==
    [t \in DOMAIN spawned |->
        IF t \in TaskIds(list) /\ spawned[t].pc # "done"
        THEN [spawned[t] EXCEPT !.cancel = TRUE]
        ELSE spawned[t]]

\* A stop() that waits for nothing.
GatheredNothing(list) == {}

\* asyncio.gather(*self.tasks, return_exceptions=True): the awaited tasks.
Gathered(list) == TaskIds(list)

\* stop(): lines 43-52, up to the await of gather; with an empty task list
\* lines 43-55, the whole call.
StopBegin ==
    /\ running' = FALSE
    /\ spawned' = CancelAll(tasks)
    /\ IF tasks # <<>>
       THEN /\ stop_call' = [pc |-> "gather", waits |-> Gathered(tasks)]
            /\ UNCHANGED <<tasks, stop_returns>>
       ELSE /\ stop_returns' = stop_returns + 1
            /\ UNCHANGED <<tasks, stop_call>>

\* stop(): lines 54-55, once every awaited task is done.
StopEnd ==
    /\ \A t \in stop_call.waits : spawned[t].pc = "done"
    /\ tasks' = <<>>
    /\ stop_call' = [pc |-> "idle", waits |-> {}]
    /\ stop_returns' = stop_returns + 1
    /\ UNCHANGED <<running, spawned>>

\* Where a loop can suspend next: the cleanup loop only sleeps (its body
\* makes no network call), the others sleep or wait for a collaborator.
NextSuspensions(loop) ==
    IF loop = "cleanup" THEN {"sleep"} ELSE {"sleep", "call"}

\* A task that is not cancelled resumes: a collaborator call returns into
\* the body; a new or woken task tests `while self.running`.
TaskResume(t, next) ==
    IF spawned[t].pc = "call" \/ running
    THEN [spawned EXCEPT ![t].pc = next, ![t].last = "ok"]
    ELSE [spawned EXCEPT ![t].pc = "done", ![t].last = "none"]

\* A loop without the `except Exception` handler: the exception ends the
\* task.
ExceptionEscapes(t) ==
    [spawned EXCEPT ![t].pc = "done", ![t].last = "error"]

\* An exception raised in the iteration body reaches the loop:
\* `except Exception as e: logger.error(...); await asyncio.sleep(...)`.
CatchException(t) ==
    [spawned EXCEPT ![t].pc = "sleep", ![t].last = "error"]

\* The CancelledError reaches a task: `except asyncio.CancelledError:
\* break` (no handler below it catches BaseException), or the task never
\* starts.
TaskUnwind(t) ==
    [spawned EXCEPT ![t].pc = "done", ![t].cancel = FALSE,
                    ![t].last = "none"]

\* ---------------------------------------------- specification: ingestion
\* Message ingestion, the clock and the retention sweep.

\* A daily_summaries row.
SummaryRow(u, d, c, n) ==
    [user_id |-> u, summary_date |-> d, summary_content |-> c,
     message_count |-> n]

\* A chat_records row.
ChatRow(u, t) == [user_id |-> u, message_time |-> t]

\* The configuration, with the defaults the code falls back to.  The
\* dynamic_config probability (tenths) is a recognised option that no code
\* reads.
DefaultConfig ==
    [enable_memory |-> TRUE,
     user_whitelist |-> <<"u1">>,
     max_daily_messages |-> 2,
     memory_days |-> 1,
     enable_auto_post |-> FALSE,
     daily_post_count |-> 2,
     start_time |-> 9 * HourMinutes,
     end_time |-> 22 * HourMinutes,
     min_interval_hours |-> 3,
     post_probability |-> 3,
     summary_time |-> 0,
     enable_auto_comment |-> FALSE,
     target_users |-> <<"u1">>,
     comment_probability |-> 3,
     qq_cookies |-> "cookie"]

IngestConfigs ==
    {[DefaultConfig EXCEPT !.enable_memory = e, !.max_daily_messages = m] :
        e \in BOOLEAN, m \in {1, 2}}

\* Summary tables earlier generations can have left behind.
IngestSummaryTables ==
    {<<>>,
     <<SummaryRow("u1", 0 - 2, "t1", 1)>>,
     <<SummaryRow("u1", 0 - 2, "t1", 1), SummaryRow("u1", 0 - 1, "t2", 2)>>}

IngestInit ==
    /\ SweepIdle
    /\ now = 0
    /\ tz \in TzOffsets
    /\ config \in IngestConfigs
    /\ llm_client = "provider"
    /\ chat_records = <<>>
    /\ daily_summaries \in IngestSummaryTables
    /\ gen = [c \in GenCallers |-> GenIdle]
    /\ last_post_times = <<>>
    /\ auto_post = AutoPostStart
    /\ manual_post = ManualIdle
    /\ running = TRUE
    /\ LifeIdle
    /\ LoopIdle
    /\ AuxIdle

\* Time passes.
IngestTick ==
    /\ now + IngestStep <= IngestDays * DayMinutes
    /\ now' = now + IngestStep
    /\ UNCHANGED <<envVars, auxVars, sweepVars, loopVars, storeVars, gen, postVars, lifeVars>>

\* on_message (main.py:117): one inbound chat event.
OnMessage ==
    /\ Len(chat_records) < MaxRecords
    /\ \E u \in Users, db_ok \in BOOLEAN : SaveMessage(u, db_ok)
    /\ UNCHANGED <<now, envVars, auxVars, sweepVars, loopVars, daily_summaries, gen, postVars, lifeVars>>

\* Loop D calls cleanup_old_data.
Cleanup ==
    /\ \E db_ok \in BOOLEAN : CleanupOldData(db_ok)
    /\ UNCHANGED <<now, envVars, auxVars, sweepVars, loopVars, gen, postVars, lifeVars>>

IngestNext ==
    \/ IngestTick
    \/ OnMessage
    \/ Cleanup

SpecIngest == IngestInit /\ [][IngestNext]_vars

\* ---------------------------------------------- specification: summaries
\* Summary generation by Loop A and by the generate command, direct
\* save_daily_summary calls and the retention sweep, over chat records
\* ingested earlier.

\* Dates a summary is asked for.
SummaryDates == {0 - 1, 0, 1}

SummaryConfigs == {DefaultConfig}

\* chat_records as ingestion left it: messages of u1 on day 0.
SummaryChatTables ==
    {<<ChatRow("u1", 0)>>,
     <<ChatRow("u1", 0), ChatRow("u1", IngestStep)>>}

SummaryInit ==
    /\ SweepIdle
    /\ now = 0
    /\ tz = 0
    /\ config \in SummaryConfigs
    /\ llm_client \in LlmKinds
    /\ chat_records \in SummaryChatTables
    /\ daily_summaries = <<>>
    /\ gen = [c \in GenCallers |-> GenIdle]
    /\ last_post_times = <<>>
    /\ auto_post = AutoPostStart
    /\ manual_post = ManualIdle
    /\ running = TRUE
    /\ LifeIdle
    /\ LoopIdle
    /\ AuxIdle

\* A day passes.
SummaryTick ==
    /\ now + DayMinutes <= SummaryDays * DayMinutes
    /\ now' = now + DayMinutes
    /\ UNCHANGED <<envVars, auxVars, sweepVars, loopVars, storeVars, gen, postVars, lifeVars>>

\* A direct save_daily_summary call.
PutSummary ==
    /\ Len(daily_summaries) < MaxSummaries
    /\ \E u \in Users, d \in SummaryDates, c \in Texts, db_ok \in BOOLEAN :
          /\ IsUserInWhitelist(u)
          /\ SaveDailySummary(u, d, c, 1, db_ok)
    /\ UNCHANGED <<now, envVars, auxVars, sweepVars, loopVars, chat_records, gen, postVars, lifeVars>>

\* Loop A calls generate_daily_summary for an allow-listed user and
\* yesterday's date.
LoopAGenerate ==
    /\ gen["loop_a"].pc # "llm"
    /\ Len(daily_summaries) < MaxSummaries
    /\ \E i \in DOMAIN config.user_whitelist, db_ok \in BOOLEAN :
          GenerateDailySummary("loop_a", config.user_whitelist[i],
                               DateOf(LocalNow) - 1, db_ok)
    /\ UNCHANGED <<now, envVars, auxVars, sweepVars, loopVars, chat_records, postVars, lifeVars>>

\* The generate command: an allow-listed sender, an LLM client configured,
\* a valid date (or none given: yesterday).
ManualGenerate ==
    /\ gen["manual"].pc # "llm"
    /\ Len(daily_summaries) < MaxSummaries
    /\ llm_client # "none"
    /\ \E u \in Users, d \in SummaryDates, db_ok \in BOOLEAN :
          /\ IsUserInWhitelist(u)
          /\ GenerateDailySummary("manual", u, d, db_ok)
    /\ UNCHANGED <<now, envVars, auxVars, sweepVars, loopVars, chat_records, postVars, lifeVars>>

\* The provider's text_chat call of a suspended generation returns.
GenLlmReturn ==
    /\ \E c \in GenCallers, outcome \in LlmOutcomes, db_ok \in BOOLEAN :
          /\ gen[c].pc = "llm"
          /\ GenComplete(c, gen[c].user_id, gen[c].date, gen[c].count,
                         CallLlmForSummary(ClientOf(c), outcome), db_ok)
    /\ UNCHANGED <<now, envVars, auxVars, sweepVars, loopVars, chat_records, postVars, lifeVars>>

SummaryNext ==
    \/ SummaryTick
    \/ PutSummary
    \/ LoopAGenerate
    \/ ManualGenerate
    \/ GenLlmReturn
    \/ Cleanup

SpecSummary == SummaryInit /\ [][SummaryNext]_vars

\* Summary generation alone: the calls the program itself makes (nothing in
\* the plugin calls save_daily_summary except generate_daily_summary).
GenerateNext ==
    \/ SummaryTick
    \/ LoopAGenerate
    \/ ManualGenerate
    \/ GenLlmReturn
    \/ Cleanup

SpecGenerate == SummaryInit /\ [][GenerateNext]_vars

\* ------------------------------------------------- claims: record store
IngestDates == 0 .. (IngestDays + 1)

\* C4: the number of chat records stored for a user and a day never exceeds
\* max_daily_messages.
DailyRecordCap ==
    \A u \in Users, d \in IngestDates :
        GetDailyMessageCount(u, d) <= config.max_daily_messages

\* C5: a save_daily_summary(u, d, c2) on a key that already holds a summary
\* leaves the stored summary as it was.
PutSummaryKeepsFirst ==
    [][\A u \in Users, d \in SummaryDates, c \in Texts :
          (/\ HasSummary(u, d)
           /\ SaveDailySummary(u, d, c, 1, TRUE)
           /\ UNCHANGED gen)
          => GetDailySummary(u, d)' = GetDailySummary(u, d)]_vars

\* C6: at most one daily_summaries row exists per (user_id, summary_date).
UniqueSummaryPerUserDate ==
    \A i, j \in DOMAIN daily_summaries :
        (/\ daily_summaries[i].user_id = daily_summaries[j].user_id
         /\ daily_summaries[i].summary_date = daily_summaries[j].summary_date)
        => i = j

\* C6 witness: two summaries are stored, the later one for the earlier
\* date, and one of them came from a generation over two messages.
UniqueSummaryWitness ==
    /\ Len(daily_summaries) >= 2
    /\ daily_summaries[1].summary_date > daily_summaries[2].summary_date
    /\ \E i \in DOMAIN daily_summaries : daily_summaries[i].message_count = 2

\* C7: a generation that resumes from its LLM call while a summary for its
\* (user, date) is already stored does not overwrite it.
GenerateNeverOverwrites ==
    [][\A c \in GenCallers, u \in Users, d \in SummaryDates :
          (/\ gen[c].pc = "llm"
           /\ gen[c].user_id = u
           /\ gen[c].date = d
           /\ gen'[c].pc = "idle"
           /\ HasSummary(u, d))
          => GetDailySummary(u, d)' = GetDailySummary(u, d)]_vars

\* ---------------------------------------------- specification: auto-post
\* Loop B with the manual_post command beside it.

\* Hours the auto-post runs cover.
PostHours == 15
\* The plugin is loaded at 20:00 local time.
PostStart == 20 * HourMinutes

PostConfigs ==
    {[DefaultConfig EXCEPT !.enable_auto_post = e, !.daily_post_count = q,
          !.min_interval_hours = h, !.post_probability = p,
          !.qq_cookies = k, !.user_whitelist = w] :
        e \in BOOLEAN, q \in {1, 2}, h \in {1, 3}, p \in {3, 10},
        k \in {"", "cookie"}, w \in {<<>>, <<"u1", "u2">>}}

\* daily_summaries as generation left it: u1 has a summary, recent or old;
\* u2 has none.
PostSummaryTables ==
    {<<SummaryRow("u1", 0 - 1, "t1", 1)>>,
     <<SummaryRow("u1", 0 - 9, "t1", 1)>>}

PostInit ==
    /\ SweepIdle
    /\ now = PostStart
    /\ tz = 0
    /\ config \in PostConfigs
    /\ llm_client \in LlmKinds
    /\ chat_records = <<>>
    /\ daily_summaries \in PostSummaryTables
    /\ gen = [c \in GenCallers |-> GenIdle]
    /\ last_post_times = <<>>
    /\ auto_post = AutoPostStart
    /\ manual_post = ManualIdle
    /\ running = TRUE
    /\ LifeIdle
    /\ LoopIdle
    /\ AuxIdle

\* Loop B wakes and runs its body up to the first suspension.
AutoPostWake ==
    /\ auto_post.pc = "wake"
    /\ \E draw \in Draws, u \in WhitelistChoices :
          \E topic \in TopicChoices(GeneralTopics, draw, u) :
              auto_post' = AutoPostBody(draw, u, topic)
    /\ UNCHANGED <<now, envVars, auxVars, sweepVars, loopVars, storeVars, gen, last_post_times, manual_post, lifeVars>>

\* The provider's text_chat call of _generate_personalized_dynamic returns.
AutoPostLlmReturn ==
    /\ auto_post.pc = "llm"
    /\ \E outcome \in LlmOutcomes :
          auto_post' = AutoPostAfterLlm(CallTextChat(llm_client, outcome))
    /\ UNCHANGED <<now, envVars, auxVars, sweepVars, loopVars, storeVars, gen, last_post_times, manual_post, lifeVars>>

\* publish_dynamic returns.
AutoPostPublishReturn ==
    /\ auto_post.pc = "publish"
    /\ \E success \in BOOLEAN :
          /\ last_post_times' = AfterPublish(last_post_times, success,
                                             LocalNow)
          /\ auto_published' = IF success
                                THEN Append(auto_published, LocalNow)
                                ELSE auto_published
          /\ auto_post' = AutoPostToSleep(
                 [auto_post EXCEPT !.published =
                                      IF success THEN "yes" ELSE "no"])
    /\ UNCHANGED <<now, envVars, background, post_scheduler, sweepVars, loopVars, storeVars, gen, manual_post, lifeVars>>

\* The sleep of Loop B ends, within a run that lasts until `limit`.
AutoPostSleepEndBy(limit) ==
    /\ auto_post.pc = "sleep"
    /\ now + auto_post.sleep <= limit
    /\ now' = now + auto_post.sleep
    /\ auto_post' = AutoPostStart

\* The sleep of Loop B ends.
AutoPostSleepEnd ==
    /\ AutoPostSleepEndBy(PostStart + PostHours * HourMinutes)
    /\ UNCHANGED <<envVars, auxVars, sweepVars, loopVars, storeVars, gen, last_post_times, manual_post, lifeVars>>

PostNext ==
    \/ AutoPostWake
    \/ AutoPostLlmReturn
    \/ AutoPostPublishReturn
    \/ AutoPostSleepEnd

SpecPost == PostInit /\ [][PostNext]_vars

\* ------------------------------------------- specification: post command
ManualConfigs ==
    {[DefaultConfig EXCEPT !.qq_cookies = k, !.user_whitelist = w] :
        k \in {"", "cookie"}, w \in {<<>>, <<"u1">>}}

ManualInit ==
    /\ SweepIdle
    /\ now = PostStart
    /\ tz = 0
    /\ config \in ManualConfigs
    /\ llm_client \in LlmKinds
    /\ chat_records = <<>>
    /\ daily_summaries \in PostSummaryTables
    /\ gen = [c \in GenCallers |-> GenIdle]
    /\ last_post_times = <<>>
    /\ auto_post = AutoPostStart
    /\ manual_post = ManualIdle
    /\ running = TRUE
    /\ LifeIdle
    /\ LoopIdle
    /\ AuxIdle

\* The post command arrives.
ManualPost ==
    /\ manual_post.pc = "idle"
    /\ \E u \in Users, given \in {"", "text"}, topic \in PluginTopics :
          manual_post' = ManualPostBody(u, given, topic)
    /\ UNCHANGED <<now, envVars, auxVars, sweepVars, loopVars, storeVars, gen, last_post_times, auto_post, lifeVars>>

\* _call_llm_unified of the post command returns; an empty answer falls
\* back to the plugin's pool.
ManualPostLlmReturn ==
    /\ manual_post.pc = "llm"
    /\ \E outcome \in LlmOutcomes, topic \in PluginTopics :
          manual_post' = [manual_post EXCEPT !.pc = "publish",
              !.content = IF Truthy(CallLlmUnified(outcome))
                          THEN CallLlmUnified(outcome) ELSE topic]
    /\ UNCHANGED <<now, envVars, auxVars, sweepVars, loopVars, storeVars, gen, last_post_times, auto_post, lifeVars>>

\* publish_dynamic of the post or postimg command returns.
ManualPostPublishReturn ==
    /\ manual_post.pc = "publish"
    /\ \E success \in BOOLEAN :
          /\ manual_post' = [manual_post EXCEPT !.pc = "idle",
                 !.reply = IF success THEN "published" ELSE "publish_failed"]
          /\ last_post_times' = CommandPublished(last_post_times, success,
                                                 LocalNow)
    /\ UNCHANGED <<now, envVars, auxVars, sweepVars, loopVars, storeVars, gen,
                   auto_post, lifeVars>>

ManualNext ==
    \/ ManualPost
    \/ ManualPostLlmReturn
    \/ ManualPostPublishReturn

SpecManual == ManualInit /\ [][ManualNext]_vars

\* ------------------------------------------------ specification: one tick
\* One iteration of Loop B and the post command beside it, at one instant.
ComposeNext ==
    \/ AutoPostWake
    \/ AutoPostLlmReturn
    \/ AutoPostPublishReturn
    \/ ManualPost
    \/ ManualPostLlmReturn
    \/ ManualPostPublishReturn

SpecCompose == PostInit /\ [][ComposeNext]_vars

\* ---------------------------------------------- specification: lifecycle
\* start() and stop() called one after the other by the host, and the four
\* loop tasks.

\* start() calls that spawn tasks.
MaxStarts == 3
\* stop() calls that return.
MaxStops == 3

LifeInit ==
    /\ SweepIdle
    /\ now = 0
    /\ tz = 0
    /\ config = DefaultConfig
    /\ llm_client = "provider"
    /\ chat_records = <<>>
    /\ daily_summaries = <<>>
    /\ gen = [c \in GenCallers |-> GenIdle]
    /\ last_post_times = <<>>
    /\ auto_post = AutoPostStart
    /\ manual_post = ManualIdle
    /\ running = FALSE
    /\ LifeIdle
    /\ LoopIdle
    /\ AuxIdle

\* The host calls start() while no other lifecycle call is in progress.
StartCall ==
    /\ stop_call.pc = "idle"
    /\ Len(spawned) + Len(Loops) <= MaxStarts * Len(Loops)
    /\ Start
    /\ UNCHANGED <<now, envVars, auxVars, sweepVars, loopVars, storeVars, gen, postVars, stop_call,
                   stop_returns>>

\* The host calls stop() while no other lifecycle call is in progress.
StopCall ==
    /\ stop_call.pc = "idle"
    /\ stop_returns < MaxStops
    /\ StopBegin
    /\ UNCHANGED <<now, envVars, auxVars, sweepVars, loopVars, storeVars, gen, postVars>>

\* The gather of a suspended stop() completes.
StopReturn ==
    /\ stop_call.pc = "gather"
    /\ StopEnd
    /\ UNCHANGED <<now, envVars, auxVars, sweepVars, loopVars, storeVars, gen, postVars>>

\* The event loop resumes a task that is not cancelled.
TaskStep ==
    /\ \E t \in DOMAIN spawned :
          /\ spawned[t].pc # "done"
          /\ ~spawned[t].cancel
          /\ \E next \in NextSuspensions(spawned[t].loop) :
                spawned' = TaskResume(t, next)
    /\ UNCHANGED <<now, envVars, auxVars, sweepVars, loopVars, storeVars, gen, postVars, running, tasks,
                   stop_call, stop_returns>>

\* The event loop resumes a task that is not cancelled and its iteration
\* body raises an exception (store, LLM, gateway, configuration).
TaskFails ==
    /\ \E t \in DOMAIN spawned :
          /\ spawned[t].pc # "done"
          /\ ~spawned[t].cancel
          /\ spawned[t].pc = "call" \/ running
          /\ spawned' = CatchException(t)
    /\ UNCHANGED <<now, envVars, auxVars, sweepVars, loopVars, storeVars, gen, postVars, running, tasks,
                   stop_call, stop_returns>>

\* The event loop resumes a cancelled task.
TaskCancelled ==
    /\ \E t \in DOMAIN spawned :
          /\ spawned[t].pc # "done"
          /\ spawned[t].cancel
          /\ spawned' = TaskUnwind(t)
    /\ UNCHANGED <<now, envVars, auxVars, sweepVars, loopVars, storeVars, gen, postVars, running, tasks,
                   stop_call, stop_returns>>

LifeNext ==
    \/ StartCall
    \/ StopCall
    \/ StopReturn
    \/ TaskStep
    \/ TaskFails
    \/ TaskCancelled

SpecLife == LifeInit /\ [][LifeNext]_vars

\* The event loop runs every task that is ready, and resumes stop() once
\* its gather is complete.
SpecLifeFair ==
    /\ SpecLife
    /\ WF_vars(TaskStep)
    /\ WF_vars(TaskCancelled)
    /\ WF_vars(StopReturn)

\* ------------------------------------ specification: overlapping lifecycle
\* start() has no suspension point, so it can run while a stop() is
\* suspended in its gather.  One stop() is in progress at a time.
StartAnytime ==
    /\ Len(spawned) + Len(Loops) <= MaxStarts * Len(Loops)
    /\ Start
    /\ UNCHANGED <<now, envVars, auxVars, sweepVars, loopVars, storeVars, gen, postVars, stop_call,
                   stop_returns>>

OverlapNext ==
    \/ StartAnytime
    \/ StopCall
    \/ StopReturn
    \/ TaskStep
    \/ TaskCancelled

SpecOverlap == LifeInit /\ [][OverlapNext]_vars

\* ------------------------------------------------------ claims: auto-post
\* The gate was evaluated in this iteration of Loop B and last_post_times is
\* still what the gate saw.
GateEvaluated ==
    /\ auto_post.gate # "none"
    /\ ~(auto_post.pc = "sleep" /\ auto_post.publish_calls = 1)

\* Entries of last_post_times dated today.
PostsToday ==
    Cardinality({i \in DOMAIN last_post_times :
        DateOf(last_post_times[i]) = DateOf(LocalNow)})

\* Minutes since the latest entry of last_post_times.
SinceLastPost == LocalNow - MaxOf(last_post_times)

\* C1: with daily_post_count entries of today in last_post_times the gate
\* returns false, whatever the window, the spacing and the draw.
QuotaGate ==
    (GateEvaluated /\ PostsToday >= config.daily_post_count)
    => auto_post.gate = "block"

\* C1 witness: two posts today with a quota of two; window and spacing would
\* let a post through.
QuotaGateWitness ==
    /\ GateEvaluated
    /\ config.daily_post_count = 2
    /\ PostsToday = 2
    /\ InWindow
    /\ SinceLastPost >= config.min_interval_hours * HourMinutes
    /\ auto_post.gate = "block"

\* C2: with a post less than min_interval_hours ago the gate returns false,
\* whatever the quota, the window and the draw.
SpacingGate ==
    (/\ GateEvaluated
     /\ last_post_times # <<>>
     /\ SinceLastPost < config.min_interval_hours * HourMinutes)
    => auto_post.gate = "block"

\* C2 witness: a post 90 minutes ago with a 3-hour minimum, inside the
\* window and below the quota.
SpacingGateWitness ==
    /\ GateEvaluated
    /\ config.min_interval_hours = 3
    /\ last_post_times # <<>>
    /\ SinceLastPost = 90
    /\ InWindow
    /\ PostsToday < config.daily_post_count
    /\ auto_post.gate = "block"

\* C3: with last_post_times empty, the time inside the window and the
\* probability configured as 1.0, the gate returns true.
GateDeterministic ==
    (/\ GateEvaluated
     /\ last_post_times = <<>>
     /\ config.start_time <= TimeOfDay(LocalNow)
     /\ TimeOfDay(LocalNow) <= config.end_time
     /\ config.post_probability = 10)
    => auto_post.gate = "pass"

\* C8: for a chosen user without recent summaries the content is drawn from
\* the fixed pool without an LLM call, and the handler goes on to publish
\* it: in Loop B and in the post command.
GenericFallbackWithoutLlm ==
    /\ (/\ auto_post.user_id # None
        /\ GetRecentSummaries(auto_post.user_id, RecentDays) = <<>>)
       => (/\ auto_post.content \in GeneralTopics
           /\ auto_post.llm_calls = 0
           /\ auto_post.publish_calls = 1)
    /\ (/\ manual_post.user_id # None
        /\ GetRecentSummaries(manual_post.user_id, RecentDays) = <<>>)
       => (/\ manual_post.content \in PluginTopics
           /\ manual_post.llm_calls = 0
           /\ manual_post.pc = "publish" \/ manual_post.reply # "none")

\* C8 witness: with a provider configured, Loop B and the post command have
\* both composed a post for a user without recent summaries.
GenericFallbackWitness ==
    /\ llm_client = "provider"
    /\ auto_post.user_id # None
    /\ GetRecentSummaries(auto_post.user_id, RecentDays) = <<>>
    /\ auto_post.content \in GeneralTopics
    /\ manual_post.user_id # None
    /\ GetRecentSummaries(manual_post.user_id, RecentDays) = <<>>
    /\ manual_post.content \in PluginTopics

\* C9: when the gate has passed, summaries exist for the chosen user and the
\* LLM gave no text, the tick still publishes a post from the fixed pool.
OpenGateAlwaysPublishes ==
    (/\ auto_post.pc = "sleep"
     /\ auto_post.gate = "pass"
     /\ auto_post.user_id # None
     /\ GetRecentSummaries(auto_post.user_id, RecentDays) # <<>>
     /\ auto_post.content \notin Texts)
    => (/\ auto_post.publish_calls = 1
        /\ auto_post.content \in GeneralTopics)

\* ------------------------------------------------------ claims: lifecycle
\* C10: when a stop() returns, running is false, the task list is empty and
\* every task is done; a stop() on a stopped scheduler with no tasks returns
\* at once and changes nothing; a stop() that waits for its tasks returns.
StopStartCycle ==
    /\ [][(stop_returns' = stop_returns + 1)
            => /\ running' = FALSE
               /\ tasks' = <<>>
               /\ \A t \in DOMAIN spawned' : spawned'[t].pc = "done"
               /\ (~running /\ tasks = <<>>)
                    => (/\ stop_call.pc = "idle"
                        /\ UNCHANGED <<running, tasks, spawned,
                                       stop_call>>)]_vars
    /\ (stop_call.pc = "gather") ~> (stop_call.pc = "idle")

\* C10 witness: the four tasks of a start() are done after a stop(), and a
\* second stop() has returned on the stopped scheduler.
StopStartCycleWitness ==
    /\ Len(spawned) = Len(Loops)
    /\ \A t \in DOMAIN spawned : spawned[t].pc = "done"
    /\ ~running
    /\ tasks = <<>>
    /\ stop_call.pc = "idle"
    /\ stop_returns = 2

\* A task that is running or will run again: not done, no cancellation
\* pending.
Live(t) == spawned[t].pc # "done" /\ ~spawned[t].cancel

\* The live tasks of one loop.
LiveOf(loop) == {t \in DOMAIN spawned : spawned[t].loop = loop /\ Live(t)}

\* C11: after any sequence of start() and stop() calls, overlapping ones
\* included, at most one live task exists for each of the four loops.
OneTaskPerLoop ==
    \A i \in DOMAIN Loops : Cardinality(LiveOf(Loops[i])) <= 1

\* C12: every live loop task is in the scheduler's task list, so that a
\* later stop() cancels it; in particular when a stop() returns.
LiveTasksTracked ==
    \A t \in DOMAIN spawned : Live(t) => t \in TaskIds(tasks)

\* C13: an exception in an iteration body is followed by the loop's sleep,
\* and a task terminates only when cancelled or when running is false.
LoopSelfHealing ==
    [][\A t \in DOMAIN spawned :
          /\ (spawned'[t].last = "error") => (spawned'[t].pc = "sleep")
          /\ (spawned[t].pc # "done" /\ spawned'[t].pc = "done")
               => (spawned[t].cancel \/ ~running)]_vars

\* C13 witness: while running, every one of the four tasks sleeps after an
\* exception in its body.
LoopSelfHealingWitness ==
    /\ running
    /\ Len(spawned) = Len(Loops)
    /\ \A t \in DOMAIN spawned :
          /\ spawned[t].last = "error"
          /\ spawned[t].pc = "sleep"
          /\ ~spawned[t].cancel

\* ------------------------------------------------- specification: Loop A
\* _daily_summary_task around midnight.

\* Five-minute checks the run covers.
LoopTicks == 6
\* The plugin is loaded at 23:50 local time.
LoopStart == DayMinutes - 10
LoopEnd == LoopStart + LoopTicks * SummarySleep

LoopConfigs ==
    {[DefaultConfig EXCEPT !.enable_memory = e, !.summary_time = s,
          !.user_whitelist = w] :
        e \in BOOLEAN, s \in {0, SummarySleep, Malformed},
        w \in {<<>>, <<"u1", "u2">>}}

\* chat_records as ingestion left it: messages of the day before the plugin
\* was loaded and of that day.
LoopChatTables ==
    {<<ChatRow("u1", 0 - 600), ChatRow("u2", 0 - 600),
       ChatRow("u1", 600), ChatRow("u2", 600)>>,
     <<ChatRow("u2", 0 - 600)>>}

LoopInit ==
    /\ SweepIdle
    /\ now = LoopStart
    /\ tz = 0
    /\ config \in LoopConfigs
    /\ llm_client \in LlmKinds
    /\ chat_records \in LoopChatTables
    /\ daily_summaries = <<>>
    /\ gen = [c \in GenCallers |-> GenIdle]
    /\ last_post_times = <<>>
    /\ auto_post = AutoPostStart
    /\ manual_post = ManualIdle
    /\ running = TRUE
    /\ LifeIdle
    /\ LoopIdle
    /\ AuxIdle

\* Loop A wakes and runs its body up to the pass or the sleep.
SummaryLoopWake ==
    /\ summary_loop.pc = "wake"
    /\ summary_loop' = SummaryLoopBody
    /\ passes' = IF SummaryLoopBody.pc = "pass"
                 THEN Append(passes, DateOf(LocalNow)) ELSE passes
    /\ UNCHANGED <<now, envVars, auxVars, sweepVars, storeVars, gen, postVars, lifeVars,
                   last_summary_date, ai_summary>>

\* The pass calls generate_daily_summary for the next user of the list.
SummaryLoopAttempt ==
    /\ summary_loop.pc = "pass"
    /\ summary_loop.idx <= Len(config.user_whitelist)
    /\ LET u == config.user_whitelist[summary_loop.idx]
           tried == [summary_loop EXCEPT !.attempts = Append(@, u)]
       IN  /\ \E db_ok \in BOOLEAN :
                 GenerateDailySummary("loop_a", u, summary_loop.date, db_ok)
           /\ summary_loop' =
                 IF gen'["loop_a"].pc = "llm"
                 THEN [tried EXCEPT !.pc = "llm"]
                 ELSE PassAdvance(tried, gen'["loop_a"].result)
    /\ UNCHANGED <<now, envVars, auxVars, sweepVars, chat_records, postVars, lifeVars,
                   last_summary_date, passes, ai_summary>>

\* The LLM call of the pass returns, at once or five minutes later.
SummaryLoopLlmReturn ==
    /\ summary_loop.pc = "llm"
    /\ \E outcome \in LlmOutcomes, db_ok \in BOOLEAN :
          GenComplete("loop_a", gen["loop_a"].user_id, gen["loop_a"].date,
                      gen["loop_a"].count,
                      CallLlmForSummary(ClientOf("loop_a"), outcome), db_ok)
    /\ summary_loop' = PassAdvance(summary_loop, gen'["loop_a"].result)
    /\ \E dt \in {0, SummarySleep} :
          /\ now + dt <= LoopEnd
          /\ now' = now + dt
    /\ UNCHANGED <<envVars, auxVars, sweepVars, chat_records, postVars, lifeVars,
                   last_summary_date, passes, ai_summary>>

\* The pass is over: line 78, then the sleep.
SummaryLoopPassEnd ==
    /\ summary_loop.pc = "pass"
    /\ summary_loop.idx > Len(config.user_whitelist)
    /\ last_summary_date' = PassRecorded(summary_loop)
    /\ summary_loop' = [summary_loop EXCEPT !.pc = "sleep",
                                            !.sleep = SummarySleep]
    /\ UNCHANGED <<now, envVars, auxVars, sweepVars, storeVars, gen, postVars, lifeVars,
                   passes, ai_summary>>

\* The sleep of Loop A ends.
SummaryLoopSleepEnd ==
    /\ summary_loop.pc = "sleep"
    /\ now + summary_loop.sleep <= LoopEnd
    /\ now' = now + summary_loop.sleep
    /\ summary_loop' = SummaryLoopStart
    /\ UNCHANGED <<envVars, auxVars, sweepVars, storeVars, gen, postVars, lifeVars,
                   last_summary_date, passes, ai_summary>>

LoopNext ==
    \/ SummaryLoopWake
    \/ SummaryLoopAttempt
    \/ SummaryLoopLlmReturn
    \/ SummaryLoopPassEnd
    \/ SummaryLoopSleepEnd

SpecLoopA == LoopInit /\ [][LoopNext]_vars

\* ------------------------------------- specification: malformed time strings
\* One iteration of Loop A and of Loop B at 20:00, with time options that
\* may be malformed.
MalformedConfigs ==
    {[DefaultConfig EXCEPT !.enable_auto_post = TRUE, !.summary_time = s,
          !.start_time = a, !.end_time = b, !.user_whitelist = w] :
        s \in {0, Malformed}, a \in {9 * HourMinutes, Malformed},
        b \in {22 * HourMinutes, Malformed}, w \in {<<>>, <<"u1", "u2">>}}

MalformedInit ==
    /\ SweepIdle
    /\ now = PostStart
    /\ tz = 0
    /\ config \in MalformedConfigs
    /\ llm_client \in LlmKinds
    /\ chat_records \in LoopChatTables
    /\ daily_summaries = <<>>
    /\ gen = [c \in GenCallers |-> GenIdle]
    /\ last_post_times = <<>>
    /\ auto_post = AutoPostStart
    /\ manual_post = ManualIdle
    /\ running = TRUE
    /\ LifeIdle
    /\ LoopIdle
    /\ AuxIdle

MalformedNext ==
    \/ SummaryLoopWake
    \/ SummaryLoopAttempt
    \/ SummaryLoopLlmReturn
    \/ SummaryLoopPassEnd
    \/ AutoPostWake
    \/ AutoPostLlmReturn
    \/ AutoPostPublishReturn

SpecMalformed == MalformedInit /\ [][MalformedNext]_vars

\* ------------------------------------------- specification: summarize
\* The two summarize operations of the repository: generate_daily_summary
\* and AIGenerator.generate_memory_summary.
AiOutcomes == LlmOutcomes \cup {"err_role"}

\* A caller awaits generate_memory_summary.
AiSummarize ==
    /\ \E provider \in BOOLEAN, outcome \in AiOutcomes :
          ai_summary' = GenerateMemorySummary(provider, outcome)
    /\ UNCHANGED <<now, envVars, auxVars, sweepVars, storeVars, gen, postVars, lifeVars,
                   last_summary_date, summary_loop, passes>>

SummarizeNext ==
    \/ SummaryTick
    \/ LoopAGenerate
    \/ ManualGenerate
    \/ GenLlmReturn
    \/ Cleanup
    \/ AiSummarize

SpecSummarize == SummaryInit /\ [][SummarizeNext]_vars

\* -------------------------------------------------------- claims: Loop A
\* C14: with a malformed summary_time Loop A runs its pass as with the
\* default 00:00, and with a malformed start_time or end_time the auto-post
\* gate gives its decision as with the default window.
DefaultsOnMalformedTime ==
    /\ (/\ summary_loop.pc = "sleep"
        /\ config.enable_memory
        /\ config.summary_time = Malformed)
       => passes # <<>>
    /\ (/\ auto_post.gate # "none"
        /\ config.start_time = Malformed \/ config.end_time = Malformed)
       => auto_post.gate \in {"pass", "block"}

\* generate_daily_summary returns None and stores nothing when its LLM call
\* gives no text.
GenerateReportsFailure ==
    [][\A c \in GenCallers :
          (/\ gen[c].pc = "llm"
           /\ gen'[c].pc = "idle"
           /\ daily_summaries' # daily_summaries)
          => gen'[c].result \in Texts]_vars

\* C15: a summarize operation returns the LLM's text or a failure value,
\* never a text made up on failure.
SummarizeReportsFailure ==
    /\ ai_summary \notin FailureTexts
    /\ \A c \in GenCallers : gen[c].result \notin FailureTexts

\* Where the pass is in the allow-list.
Attempted ==
    IF summary_loop.pc = "llm" THEN summary_loop.idx
    ELSE summary_loop.idx - 1

\* C16: within one pass every allow-listed user is attempted once, in list
\* order, whatever the earlier attempts returned.
PassAttemptsEveryUser ==
    /\ summary_loop.pc \in {"pass", "llm"}
         => summary_loop.attempts
              = SubSeq(config.user_whitelist, 1, Attempted)
    /\ (summary_loop.pc = "sleep" /\ summary_loop.today # NoDate)
         => summary_loop.attempts = config.user_whitelist

\* C16 witness: the pass is over, u1 had messages but got no summary, and
\* u2 after it was attempted and got one.
PassAttemptsWitness ==
    /\ summary_loop.pc = "sleep"
    /\ summary_loop.attempts = <<"u1", "u2">>
    /\ GetMessagesByDate("u1", summary_loop.date) # <<>>
    /\ ~HasSummary("u1", summary_loop.date)
    /\ HasSummary("u2", summary_loop.date)

\* C17: a pass starts at most once per day, only with memory enabled, the
\* time of day at or after summary_time and last_summary_date not today;
\* last_summary_date changes only at the end of a pass, to its day.
OncePerDayPass ==
    [][/\ \A i, j \in DOMAIN passes' : passes'[i] = passes'[j] => i = j
       /\ passes' # passes
            => /\ config.enable_memory
               /\ config.summary_time # Malformed
               /\ TimeOfDay(LocalNow) >= config.summary_time
               /\ last_summary_date # DateOf(LocalNow)
               /\ passes' = Append(passes, DateOf(LocalNow))
       /\ last_summary_date' # last_summary_date
            => /\ summary_loop.pc = "pass"
               /\ summary_loop.idx > Len(config.user_whitelist)
               /\ last_summary_date' = summary_loop.today]_vars

\* C17 witness: a pass on each of two days, and checks after the second.
OncePerDayWitness ==
    /\ passes = <<0, 1>>
    /\ last_summary_date = 1
    /\ summary_loop.pc = "sleep"
    /\ summary_loop.today = NoDate

\* ------------------------------------------ specification: many posts
\* Loop B with a quota and a spacing that let every tick post, after nine
\* posts earlier in the day, and the post command beside it.

\* Ticks of Loop B the run covers after the first.
ManyTicks == 3

ManyConfig ==
    [DefaultConfig EXCEPT !.enable_auto_post = TRUE, !.daily_post_count = 20,
         !.min_interval_hours = 0, !.start_time = 0,
         !.end_time = DayMinutes - 1, !.user_whitelist = <<"u2">>]

\* Posts of the nine ticks from 15:30 to 19:30.
EarlierPosts == [i \in 1 .. 9 |-> PostStart - (10 - i) * PostSleep]

ManyInit ==
    /\ SweepIdle
    /\ now = PostStart
    /\ tz = 0
    /\ config = ManyConfig
    /\ llm_client \in LlmKinds
    /\ chat_records = <<>>
    /\ daily_summaries \in PostSummaryTables
    /\ gen = [c \in GenCallers |-> GenIdle]
    /\ last_post_times \in {<<>>, EarlierPosts}
    /\ auto_post = AutoPostStart
    /\ manual_post = ManualIdle
    /\ running = TRUE
    /\ LifeIdle
    /\ LoopIdle
    /\ AuxIdle

\* The sleep of Loop B ends.
AutoPostSleepEndSoon ==
    /\ AutoPostSleepEndBy(PostStart + ManyTicks * PostSleep)
    /\ UNCHANGED <<envVars, auxVars, sweepVars, loopVars, storeVars, gen, last_post_times,
                   manual_post, lifeVars>>

\* The only allow-listed user has no summaries, so no post is composed by
\* the LLM.
ManyNext ==
    \/ AutoPostWake
    \/ AutoPostPublishReturn
    \/ AutoPostSleepEndSoon
    \/ ManualPost
    \/ ManualPostPublishReturn

SpecMany == ManyInit /\ [][ManyNext]_vars

\* ------------------------------------------------ claims: post records
\* last_post_times holds at most ten entries, in non-decreasing order.
OrderedAndBounded ==
    /\ Len(last_post_times) <= 10
    /\ \A i, j \in DOMAIN last_post_times :
          i < j => last_post_times[i] <= last_post_times[j]

\* C18: last_post_times is always non-decreasing with at most 10 entries,
\* and only the step that ends Loop B's publish call changes it.
PostTimesOrderedBounded ==
    /\ []OrderedAndBounded
    /\ [][last_post_times' # last_post_times
            => /\ auto_post.pc = "publish"
               /\ auto_post'.pc = "sleep"
               /\ manual_post' = manual_post]_vars

\* C18 witness: the list is full, its oldest entries were dropped, and the
\* post command has published without a record.
PostTimesWitness ==
    /\ Len(last_post_times) = 10
    /\ last_post_times[1] > EarlierPosts[1]
    /\ last_post_times[10] = LocalNow
    /\ manual_post.reply = "published"

\* C19: the step that ends the publish call of a tick appends now on
\* success and leaves last_post_times alone on failure; either way the tick
\* goes to its sleep having called publish once, and a publish call is made
\* only by an iteration whose gate passed.
PublishOutcome ==
    [][/\ (auto_post.pc = "publish" /\ auto_post'.pc # "publish")
            => /\ auto_post'.pc = "sleep"
               /\ auto_post'.publish_calls = 1
               /\ auto_post'.published = "yes"
                    => last_post_times' = Append(last_post_times, LocalNow)
               /\ auto_post'.published = "no"
                    => last_post_times' = last_post_times
               /\ auto_post'.published \in {"yes", "no"}
       /\ auto_post'.publish_calls <= 1
       /\ (auto_post'.pc = "publish" /\ auto_post.pc # "publish")
            => /\ auto_post.pc \in {"wake", "llm"}
               /\ auto_post'.gate = "pass"]_vars

\* C19 witness: a tick whose publish failed sleeps, after an earlier tick
\* whose publish succeeded.
PublishOutcomeWitness ==
    /\ auto_post.pc = "sleep"
    /\ auto_post.published = "no"
    /\ auto_post.publish_calls = 1
    /\ Len(last_post_times) = 1
    /\ last_post_times[1] < LocalNow

\* ---------------------------------------------------------- claims: purge
\* C20: a second cleanup_old_data right after the first, with no write and
\* no change of date in between, deletes nothing more: what a purge leaves
\* is left whole by the next one.
PurgeIdempotent ==
    /\ PurgeRecords(PurgeRecords(chat_records)) = PurgeRecords(chat_records)
    /\ PurgeSummaries(PurgeSummaries(daily_summaries))
         = PurgeSummaries(daily_summaries)

\* C20 witness: two records are stored and a purge would delete one of
\* them and keep the other.
PurgeIdempotentWitness ==
    /\ Len(chat_records) = 2
    /\ Len(PurgeRecords(chat_records)) = 1

\* ------------------------------------------------------ claims: retention
\* The calendar date the host's clock showed when the record was written.
WrittenOn(r) == DateOf(r.message_time + tz)

\* A step of a cleanup sweep that deletes rows leaves no chat record written
\* before (today - memory_days) and no summary dated before
\* (today - 2 * memory_days), and keeps every row inside those horizons.
RetentionStep ==
    (/\ now' = now
     /\ \/ Len(chat_records') < Len(chat_records)
        \/ Len(daily_summaries') < Len(daily_summaries))
    => LET cutoff == DateOf(LocalNow) - config.memory_days
           summary_cutoff == DateOf(LocalNow) - config.memory_days * 2
           InsideR(r) == WrittenOn(r) >= cutoff
           InsideS(r) == r.summary_date >= summary_cutoff
       IN  /\ \A i \in DOMAIN chat_records' : InsideR(chat_records'[i])
           /\ \A i \in DOMAIN daily_summaries' :
                 InsideS(daily_summaries'[i])
           /\ SelectSeq(chat_records', InsideR)
                = SelectSeq(chat_records, InsideR)
           /\ SelectSeq(daily_summaries', InsideS)
                = SelectSeq(daily_summaries, InsideS)

\* C21: every cleanup sweep that completes successfully removes exactly the
\* rows older than the retention horizons.
RetentionHorizons == [][RetentionStep]_vars

\* ------------------------------------------------------ claims: ingestion
\* The records of user u written on the current day have reached the cap.
CapReached(u) ==
    Len(SelectSeq(chat_records,
            LAMBDA r : r.user_id = u /\ WrittenOn(r) = DateOf(LocalNow)))
        >= config.max_daily_messages

\* The cases in which save_message is to drop the record.
Rejected(u, db_ok) ==
    \/ ~config.enable_memory
    \/ ~IsUserInWhitelist(u)
    \/ CapReached(u)
    \/ ~db_ok

\* C22: a save_message call for a user who is not allow-listed, or with
\* memory disabled, or after the user's cap for the day is reached, or whose
\* INSERT fails, leaves chat_records unchanged.
SilentRejection ==
    [][\A u \in Users, db_ok \in BOOLEAN :
          (Rejected(u, db_ok) /\ SaveMessage(u, db_ok))
          => UNCHANGED chat_records]_vars

\* ------------------------------------------------ loop bodies, in detail
\* Posts one get_recent_dynamics call returns, at most.
SweepPosts == 2

\* Where a task stands.  point: the await it is suspended in (new: not yet
\* run).  users, posts: entries of the enclosing for loops still to go, the
\* current one included.  op: the operation started in the stretch that led
\* here (summarize, publish, comment, purge, or none).  cancelled_at: for a
\* finished task, the point the CancelledError was thrown at.
Position(point, users, posts, op) ==
    [point |-> point, users |-> users, posts |-> posts, op |-> op,
     cancelled_at |-> "none"]

\* The await points of the loop-level code: asyncio.sleep in the disabled
\* branch, at the end of an iteration and in the `except Exception` handler.
LoopPoints == {"new", "off_sleep", "sleep", "handler_sleep"}

\* pc of the task record for a point.
PcOf(point) ==
    IF point \in {"new", "done"} THEN point
    ELSE IF point \in {"off_sleep", "sleep", "handler_sleep", "user_sleep",
                       "post_sleep"} THEN "sleep"
    ELSE "call"

\* The try blocks around an await point, innermost first.  callee: the
\* `except Exception` inside the collaborator (memory.py:184, qzone_api.py
\* :116, :265, :340, scheduler.py:390); per_user: the one inside the for
\* loop; body: the one around the function called by the loop; loop: the
\* try of the while loop with its two except clauses.  The handler's own
\* sleep is inside no try block.
Handlers(loop, point) ==
    IF point \in {"new", "done", "handler_sleep"} THEN <<>>
    ELSE IF point \in {"off_sleep", "sleep"} THEN <<"loop">>
    ELSE IF loop = "auto_post" THEN <<"callee", "body", "loop">>
    ELSE IF point \in {"user_sleep", "post_sleep"}
         THEN <<"per_user", "body", "loop">>
    ELSE <<"callee", "per_user", "body", "loop">>

\* Every `except Exception` also catches the CancelledError.
EveryHandlerCatches(h) == TRUE

\* Which try block catches asyncio.CancelledError: only the loop's
\* `except asyncio.CancelledError: break`; `except Exception` does not
\* (CancelledError derives from BaseException).
CatchesCancelled(h) == h = "loop"

RECURSIVE CaughtBy(_)
CaughtBy(chain) ==
    IF chain = <<>> THEN "nobody"
    ELSE IF CatchesCancelled(Head(chain)) THEN Head(chain)
    ELSE CaughtBy(Tail(chain))

\* _perform_daily_summary, from the start of the iteration for the users-th
\* last user: generate_daily_summary awaits the LLM, or returns without
\* suspending (cached summary, no messages) and sleep(2) follows; after the
\* last user the pass is over and the loop sleeps.
SummaryIteration(users) ==
    IF users = 0 THEN {Position("sleep", 0, 0, "none")}
    ELSE {Position("summarize", users, 0, "summarize"),
          Position("user_sleep", users, 0, "summarize")}

\* _check_and_comment_dynamics, from the posts-th last post of the current
\* list: posts are skipped (has_comment, or the draw) until one gets a
\* comment generated; after the last post sleep(5) follows.
CommentIteration(users, posts) ==
    {Position("generate", users, j, "none") : j \in 1 .. posts}
        \cup {Position("user_sleep", users, 0, "none")}

\* An iteration of the while loop, from its top to the first await.
LoopTop(loop) ==
    IF loop = "daily_summary"
    THEN IF ~config.enable_memory
         THEN {Position("off_sleep", 0, 0, "none")}
         ELSE {Position("sleep", 0, 0, "none")}
                \cup SummaryIteration(Len(config.user_whitelist))
    ELSE IF loop = "auto_post"
    THEN IF ~config.enable_auto_post
         THEN {Position("off_sleep", 0, 0, "none")}
         ELSE {Position("sleep", 0, 0, "none")}
                \cup IF IsConfigured /\ config.user_whitelist # <<>>
                     THEN {Position("generate", 0, 0, "none"),
                           Position("publish", 0, 0, "publish")}
                     ELSE {}
    ELSE IF loop = "auto_comment"
    THEN IF ~config.enable_auto_comment
         THEN {Position("off_sleep", 0, 0, "none")}
         ELSE IF ~IsConfigured \/ config.target_users = <<>>
         THEN {Position("sleep", 0, 0, "none")}
         ELSE {Position("list", Len(config.target_users), 0, "none")}
    ELSE {Position("sleep", 0, 0, "purge"), Position("sleep", 0, 0, "none")}

\* The task is resumed with the result of what it awaited: the positions
\* it can suspend at next.
Continue(loop, p) ==
    IF p.point \in LoopPoints
    THEN IF running THEN LoopTop(loop)
         ELSE {Position("done", 0, 0, "none")}
    ELSE IF p.point = "summarize"
    THEN {Position("user_sleep", p.users, 0, "none")}
    ELSE IF p.point = "user_sleep" /\ loop = "daily_summary"
    THEN SummaryIteration(p.users - 1)
    ELSE IF p.point = "generate" /\ loop = "auto_post"
    THEN {Position("publish", 0, 0, "publish"),
          Position("sleep", 0, 0, "none")}
    ELSE IF p.point = "publish"
    THEN {Position("sleep", 0, 0, "none")}
    ELSE IF p.point = "list"
    THEN UNION {CommentIteration(p.users, k) : k \in 0 .. SweepPosts}
    ELSE IF p.point = "generate"
    THEN {Position("comment", p.users, p.posts, "comment")}
            \cup CommentIteration(p.users, p.posts - 1)
    ELSE IF p.point = "comment"
    THEN {Position("post_sleep", p.users, p.posts, "none")}
    ELSE IF p.point = "post_sleep"
    THEN CommentIteration(p.users, p.posts - 1)
    ELSE IF p.users > 1
    THEN {Position("list", p.users - 1, 0, "none")}
    ELSE {Position("sleep", 0, 0, "none")}

\* The task is resumed with a CancelledError thrown at its await point:
\* caught by the loop (break) or by nobody, the task ends; caught inside
\* the collaborator, the call returns a failure; caught in the for loop,
\* the next entry follows; caught around the called function, the loop
\* goes on to its sleep.
Unwind(loop, p) ==
    LET h == CaughtBy(Handlers(loop, p.point))
        Ended == [Position("done", 0, 0, "none")
                    EXCEPT !.cancelled_at = p.point]
    IN  IF h \in {"loop", "nobody"} THEN {Ended}
        ELSE IF h = "callee" THEN Continue(loop, p)
        ELSE IF h = "per_user"
        THEN Continue(loop, [p EXCEPT !.point = "user_sleep"])
        ELSE {Position("sleep", 0, 0, "none")}

\* ------------------------------------------- specification: cancellation
\* The four loops between start() and the return of stop(), each followed
\* from await point to await point.
CancelConfigs ==
    {[DefaultConfig EXCEPT !.enable_memory = m, !.enable_auto_post = m,
                           !.enable_auto_comment = m,
                           !.user_whitelist = w, !.target_users = w] :
        m \in BOOLEAN, w \in {<<"u1">>, <<"u1", "u2">>}}

CancelInit ==
    /\ now = 0
    /\ tz = 0
    /\ config \in CancelConfigs
    /\ llm_client = "provider"
    /\ chat_records = <<>>
    /\ daily_summaries = <<>>
    /\ gen = [c \in GenCallers |-> GenIdle]
    /\ last_post_times = <<>>
    /\ auto_post = AutoPostStart
    /\ manual_post = ManualIdle
    /\ running = FALSE
    /\ LifeIdle
    /\ LoopIdle
    /\ SweepIdle
    /\ AuxIdle

\* start() on a scheduler that was never started.
CancelStart ==
    /\ spawned = <<>>
    /\ Start
    /\ at' = [t \in 1 .. Len(Loops) |-> Position("new", 0, 0, "none")]
    /\ UNCHANGED <<now, envVars, auxVars, storeVars, gen, postVars, loopVars, gateway,
                       comment_loop, summary_cmd, cleanup_loop,
                   stop_call, stop_returns>>

\* The event loop resumes a task that is not cancelled.
LoopStep ==
    \E t \in DOMAIN at :
        /\ ~spawned[t].cancel
        /\ at[t].point # "done"
        /\ \E q \in Continue(spawned[t].loop, at[t]) :
              /\ at' = [at EXCEPT ![t] = q]
              /\ spawned' = [spawned EXCEPT ![t].pc = PcOf(q.point)]
        /\ UNCHANGED <<now, envVars, auxVars, storeVars, gen, postVars, loopVars, gateway,
                       comment_loop, summary_cmd, cleanup_loop,
                       running, tasks, stop_call, stop_returns>>

\* An iteration raises before its first await (a config value the code
\* cannot use) and the loop's handler goes to sleep.
LoopRaises ==
    \E t \in DOMAIN at :
        /\ ~spawned[t].cancel
        /\ running
        /\ at[t].point \in LoopPoints
        /\ spawned[t].loop # "cleanup"
        /\ at' = [at EXCEPT ![t] = Position("handler_sleep", 0, 0, "none")]
        /\ spawned' = [spawned EXCEPT ![t].pc = "sleep"]
        /\ UNCHANGED <<now, envVars, auxVars, storeVars, gen, postVars, loopVars, gateway,
                       comment_loop, summary_cmd, cleanup_loop,
                       running, tasks, stop_call, stop_returns>>

\* stop() up to its gather.
CancelStop ==
    /\ running
    /\ StopBegin
    /\ UNCHANGED <<now, envVars, auxVars, storeVars, gen, postVars, loopVars, gateway,
                       comment_loop, summary_cmd, cleanup_loop, at>>

\* The event loop resumes a cancelled task.
LoopCancelled ==
    \E t \in DOMAIN at :
        /\ spawned[t].cancel
        /\ \E q \in Unwind(spawned[t].loop, at[t]) :
              /\ at' = [at EXCEPT ![t] = q]
              /\ spawned' = [spawned EXCEPT ![t].pc = PcOf(q.point),
                                            ![t].cancel = FALSE]
        /\ UNCHANGED <<now, envVars, auxVars, storeVars, gen, postVars, loopVars, gateway,
                       comment_loop, summary_cmd, cleanup_loop,
                       running, tasks, stop_call, stop_returns>>

\* stop() returns.
CancelStopEnd ==
    /\ stop_call.pc = "gather"
    /\ StopEnd
    /\ UNCHANGED <<now, envVars, auxVars, storeVars, gen, postVars, loopVars, gateway,
                       comment_loop, summary_cmd, cleanup_loop, at>>

CancelNext ==
    \/ CancelStart
    \/ LoopStep
    \/ LoopRaises
    \/ CancelStop
    \/ LoopCancelled
    \/ CancelStopEnd

SpecCancel == CancelInit /\ [][CancelNext]_vars

MaxMsgs == 3

\* An entry of msglist: plain (no cmtlist or an empty one), commented, or
\* broken (not a dict, or a cmtlist that has no len(): msg.get or len
\* raises).
MsgKinds == {"plain", "commented", "broken"}

RECURSIVE SeqsUpTo(_, _)
SeqsUpTo(S, n) ==
    IF n = 0 THEN {<<>>}
    ELSE LET shorter == SeqsUpTo(S, n - 1)
         IN  shorter \cup {Append(q, x) : q \in shorter, x \in S}

\* What the network gives back to one gateway request.  transport: ok,
\* http_error (status other than 200) or raise (aiohttp raises); params:
\* whether _get_publish_params found anything; accepted: the body holds
\* "code":0 or "ret":0; shape: the body is _Callback(<json>), something
\* else, or _Callback(<text json.loads rejects>); code, msglist: of the
\* json.
Replies ==
    [transport : {"ok", "http_error", "raise"},
     params : BOOLEAN,
     accepted : BOOLEAN,
     shape : {"callback", "other", "bad_json"},
     code : {0, 1},
     msglist : SeqsUpTo(MsgKinds, MaxMsgs)]

RECURSIVE ParseMessages(_)
\* for msg in msg_list: dynamics.append({...}), inside the try whose
\* handler logs; `return dynamics` follows the handler.
ParseMessages(msgs) ==
    IF msgs = <<>> \/ Head(msgs) = "broken" THEN <<>>
    ELSE <<[has_comment |-> Head(msgs) = "commented"]>>
            \o ParseMessages(Tail(msgs))

\* _parse_dynamics_list(result)
ParseDynamicsList(reply) ==
    IF reply.shape = "callback" /\ reply.code = 0
    THEN ParseMessages(reply.msglist)
    ELSE <<>>

\* get_recent_dynamics(target_qq, count)
GetRecentDynamics(reply) ==
    IF ~IsConfigured THEN <<>>
    ELSE IF reply.transport = "ok" THEN ParseDynamicsList(reply)
    ELSE <<>>

\* publish_dynamic(content) and comment_dynamic(tid, qq, text): the same
\* steps against different URLs.
PublishDynamic(reply) ==
    /\ IsConfigured
    /\ reply.params
    /\ reply.transport = "ok"
    /\ reply.accepted

CommentDynamic(reply) == PublishDynamic(reply)

GatewayIdle == [reply |-> "none", call |-> "none", ok |-> FALSE,
                listed |-> <<>>]

\* ------------------------------------------------ specification: gateway
\* One gateway request and the reply it gets.
GatewayInit ==
    /\ now = 0
    /\ tz = 0
    /\ config \in {DefaultConfig, [DefaultConfig EXCEPT !.qq_cookies = ""]}
    /\ llm_client = "provider"
    /\ chat_records = <<>>
    /\ daily_summaries = <<>>
    /\ gen = [c \in GenCallers |-> GenIdle]
    /\ last_post_times = <<>>
    /\ auto_post = AutoPostStart
    /\ manual_post = ManualIdle
    /\ running = TRUE
    /\ LifeIdle
    /\ LoopIdle
    /\ at = <<>>
    /\ comment_loop = [pc |-> "wake", user |-> 0, dynamics |-> <<>>,
                       idx |-> 0, text |-> None, comments |-> <<>>,
                       list_calls |-> 0, llm_calls |-> 0]
    /\ summary_cmd = "none"
    /\ cleanup_loop = [pc |-> "wake", purged |-> FALSE, sleep |-> 0,
                       polls |-> 0]
    /\ gateway \in {[GatewayIdle EXCEPT !.reply = r] : r \in Replies}
    /\ AuxIdle

\* get_recent_dynamics is called.
ListRecent ==
    /\ gateway.call = "none"
    /\ gateway' = [gateway EXCEPT !.call = "list",
                      !.listed = GetRecentDynamics(gateway.reply)]
    /\ UNCHANGED <<now, envVars, auxVars, storeVars, gen, postVars, lifeVars,
                   loopVars, at, comment_loop, summary_cmd,
                   cleanup_loop>>

\* publish_dynamic is called.
Publish ==
    /\ gateway.call = "none"
    /\ gateway' = [gateway EXCEPT !.call = "publish",
                      !.ok = PublishDynamic(gateway.reply)]
    /\ UNCHANGED <<now, envVars, auxVars, storeVars, gen, postVars, lifeVars,
                   loopVars, at, comment_loop, summary_cmd,
                   cleanup_loop>>

\* comment_dynamic is called.
Comment ==
    /\ gateway.call = "none"
    /\ gateway' = [gateway EXCEPT !.call = "comment",
                      !.ok = CommentDynamic(gateway.reply)]
    /\ UNCHANGED <<now, envVars, auxVars, storeVars, gen, postVars, lifeVars,
                   loopVars, at, comment_loop, summary_cmd,
                   cleanup_loop>>

GatewayNext ==
    \/ ListRecent
    \/ Publish
    \/ Comment

SpecGateway == GatewayInit /\ [][GatewayNext]_vars

\* -------------------------------------------------------- claims: gateway
\* The request met a transport error or the reply could not be parsed.
GatewayError ==
    \/ gateway.reply.transport # "ok"
    \/ /\ gateway.call = "list"
       /\ \/ gateway.reply.shape = "bad_json"
          \/ /\ gateway.reply.shape = "callback"
             /\ gateway.reply.code = 0
             /\ \E i \in DOMAIN gateway.reply.msglist :
                   gateway.reply.msglist[i] = "broken"

\* C24: a publish or comment request that met a transport or parse error
\* returns false and a list-recent request that met one returns the empty
\* list, never the posts parsed before the error.
GatewayAllOrNothing ==
    (gateway.call # "none" /\ GatewayError)
        => (~gateway.ok /\ gateway.listed = <<>>)

\* ----------------------------------------------------- auto-comment sweep
\* _generate_comment(content): the scheduler's llm_client is the plugin's
\* client, which has no _call_llm_unified; text_chat's response is
\* normalised as in _generate_personalized_dynamic and every exception
\* gives None.
GenerateComment(outcome) == CallTextChat(llm_client, outcome)

\* What get_recent_dynamics can return to the sweep.
DynamicsLists == SeqsUpTo([has_comment : BOOLEAN], SweepPosts)

\* One draw of random.random(), in tenths, for each post of a list: the
\* ends of the range and both sides of the default threshold of 30%.
DrawSamples == {0, 2, 3, 9}
DrawsFor == [1 .. SweepPosts -> DrawSamples]

\* The first post from `from` on that is picked whatever it carries.
FirstDrawn(dynamics, from, draws) ==
    LET picked == {j \in from .. Len(dynamics) :
                      draws[j] < config.comment_probability}
    IN  IF picked = {} THEN 0
        ELSE CHOOSE j \in picked : \A k \in picked : j <= k

\* for dynamic in dynamics: the first post from `from` on that passes
\* `not dynamic.get('has_comment', False) and random.random() <
\* probability`, 0 if none does.
FirstPicked(dynamics, from, draws) ==
    LET picked == {j \in from .. Len(dynamics) :
                      /\ ~dynamics[j].has_comment
                      /\ draws[j] < config.comment_probability}
    IN  IF picked = {} THEN 0
        ELSE CHOOSE j \in picked : \A k \in picked : j <= k

\* The frame of _auto_comment_task.  pc: wake (top of the while loop),
\* list, generate, comment (suspended in that call), post_sleep,
\* user_sleep, sleep.  user: index into target_users; dynamics: the list
\* for that user; idx: the post in hand; text: the generated comment;
\* comments: the comment_dynamic calls of this sweep; list_calls,
\* llm_calls: the calls of this sweep.
CommentLoopStart ==
    [pc |-> "wake", user |-> 0, dynamics |-> <<>>, idx |-> 0,
     text |-> None, comments |-> <<>>, list_calls |-> 0, llm_calls |-> 0]

\* The sweep goes on from post `from` of the current list.
CommentWalk(frame, from, draws) ==
    LET j == FirstPicked(frame.dynamics, from, draws)
    IN  IF j = 0
        THEN [frame EXCEPT !.pc = "user_sleep", !.idx = 0, !.text = None]
        ELSE [frame EXCEPT !.pc = "generate", !.idx = j, !.text = None,
                           !.llm_calls = @ + 1]

\* Lines 279-290 and 298-311: the top of the loop up to its first await.
CommentLoopBody ==
    IF ~config.enable_auto_comment
         \/ ~IsConfigured
         \/ config.target_users = <<>>
    THEN [CommentLoopStart EXCEPT !.pc = "sleep"]
    ELSE [CommentLoopStart EXCEPT !.pc = "list", !.user = 1,
                                  !.list_calls = 1]

\* Lines 318-327: the generated comment has arrived.
CommentAfterGenerate(frame, comment, draws) ==
    IF Truthy(comment)
    THEN [frame EXCEPT !.pc = "comment", !.text = comment,
              !.comments = Append(@, [user |-> frame.user,
                                      idx |-> frame.idx,
                                      text |-> comment])]
    ELSE CommentWalk(frame, frame.idx + 1, draws)

\* Line 330 onwards: sleep(5) is over, the next target user or the end of
\* the sweep.
CommentNextUser(frame) ==
    IF frame.user < Len(config.target_users)
    THEN [frame EXCEPT !.pc = "list", !.user = @ + 1, !.dynamics = <<>>,
                       !.list_calls = @ + 1]
    ELSE [frame EXCEPT !.pc = "sleep", !.dynamics = <<>>]

\* ----------------------------------------------- specification: comments
\* The auto-comment loop alone.
CommentConfigs ==
    {[DefaultConfig EXCEPT !.enable_auto_comment = e, !.qq_cookies = c,
                           !.target_users = t, !.comment_probability = p] :
        e \in BOOLEAN, c \in {"", "cookie"},
        t \in {<<>>, <<"u1">>, <<"u1", "u2">>}, p \in {0, 3, 10}}

CommentInit ==
    /\ now = 0
    /\ tz = 0
    /\ config \in CommentConfigs
    /\ llm_client \in LlmKinds
    /\ chat_records = <<>>
    /\ daily_summaries = <<>>
    /\ gen = [c \in GenCallers |-> GenIdle]
    /\ last_post_times = <<>>
    /\ auto_post = AutoPostStart
    /\ manual_post = ManualIdle
    /\ running = TRUE
    /\ LifeIdle
    /\ LoopIdle
    /\ at = <<>>
    /\ gateway = GatewayIdle
    /\ comment_loop = CommentLoopStart
    /\ summary_cmd = "none"
    /\ cleanup_loop = [pc |-> "wake", purged |-> FALSE, sleep |-> 0,
                       polls |-> 0]
    /\ AuxIdle

\* A sleep of the loop ends and the next iteration runs to its first await.
CommentLoopWake ==
    /\ comment_loop.pc \in {"wake", "sleep"}
    /\ comment_loop' = CommentLoopBody
    /\ UNCHANGED <<now, envVars, auxVars, storeVars, gen, postVars, lifeVars,
                   loopVars, at, gateway, summary_cmd,
                   cleanup_loop>>

\* get_recent_dynamics returns.
CommentListReturn ==
    /\ comment_loop.pc = "list"
    /\ \E dynamics \in DynamicsLists, draws \in DrawsFor :
          comment_loop' =
              CommentWalk([comment_loop EXCEPT !.dynamics = dynamics],
                          1, draws)
    /\ UNCHANGED <<now, envVars, auxVars, storeVars, gen, postVars, lifeVars,
                   loopVars, at, gateway, summary_cmd,
                   cleanup_loop>>

\* _generate_comment returns.
CommentGenerateReturn ==
    /\ comment_loop.pc = "generate"
    /\ \E outcome \in LlmOutcomes, draws \in DrawsFor :
          comment_loop' = CommentAfterGenerate(comment_loop,
                              GenerateComment(outcome), draws)
    /\ UNCHANGED <<now, envVars, auxVars, storeVars, gen, postVars, lifeVars,
                   loopVars, at, gateway, summary_cmd,
                   cleanup_loop>>

\* comment_dynamic returns, with either result.
CommentCallReturn ==
    /\ comment_loop.pc = "comment"
    /\ comment_loop' = [comment_loop EXCEPT !.pc = "post_sleep"]
    /\ UNCHANGED <<now, envVars, auxVars, storeVars, gen, postVars, lifeVars,
                   loopVars, at, gateway, summary_cmd,
                   cleanup_loop>>

\* sleep(random.randint(10, 30)) ends.
CommentPostSleepEnd ==
    /\ comment_loop.pc = "post_sleep"
    /\ \E draws \in DrawsFor :
          comment_loop' = CommentWalk(comment_loop, comment_loop.idx + 1,
                                      draws)
    /\ UNCHANGED <<now, envVars, auxVars, storeVars, gen, postVars, lifeVars,
                   loopVars, at, gateway, summary_cmd,
                   cleanup_loop>>

\* sleep(5) ends.
CommentUserSleepEnd ==
    /\ comment_loop.pc = "user_sleep"
    /\ comment_loop' = CommentNextUser(comment_loop)
    /\ UNCHANGED <<now, envVars, auxVars, storeVars, gen, postVars, lifeVars,
                   loopVars, at, gateway, summary_cmd,
                   cleanup_loop>>

CommentNext ==
    \/ CommentLoopWake
    \/ CommentListReturn
    \/ CommentGenerateReturn
    \/ CommentCallReturn
    \/ CommentPostSleepEnd
    \/ CommentUserSleepEnd

SpecComment == CommentInit /\ [][CommentNext]_vars

\* ------------------------------------------------ claims: comment sweep
\* C25: comment_dynamic is called only for a post listed without a
\* comment and with the non-empty text generated for it; a generation that
\* fails leads to no comment call and the sweep goes on with the next post,
\* and after the last post with the next target user.
CommentSweep ==
    [][/\ (/\ comment_loop'.comments # comment_loop.comments
           /\ comment_loop.pc \notin {"wake", "sleep"})
          => /\ comment_loop.pc = "generate"
             /\ comment_loop'.pc = "comment"
             /\ ~comment_loop.dynamics[comment_loop.idx].has_comment
             /\ comment_loop'.text \in Texts
             /\ comment_loop'.comments =
                   Append(comment_loop.comments,
                          [user |-> comment_loop.user,
                           idx |-> comment_loop.idx,
                           text |-> comment_loop'.text])
       /\ (/\ comment_loop.pc = "generate"
           /\ comment_loop'.pc \notin {"generate", "comment"})
          => /\ comment_loop'.pc = "user_sleep"
             /\ comment_loop'.user = comment_loop.user
       /\ (comment_loop.pc = "generate" /\ comment_loop'.pc = "generate")
          => /\ comment_loop'.idx > comment_loop.idx
             /\ comment_loop'.user = comment_loop.user
             /\ comment_loop'.comments = comment_loop.comments
       /\ (/\ comment_loop.pc = "user_sleep"
           /\ comment_loop.user < Len(config.target_users)
           /\ comment_loop' # comment_loop)
          => /\ comment_loop'.pc = "list"
             /\ comment_loop'.user = comment_loop.user + 1]_vars

\* C25 witness: the sweep is at its second target user; for the first one
\* a generation failed and a later post of the same list got a comment.
CommentSweepWitness ==
    /\ comment_loop.pc = "list"
    /\ comment_loop.user = 2
    /\ comment_loop.llm_calls = 2
    /\ Len(comment_loop.comments) = 1
    /\ comment_loop.comments[1].idx = 2

\* --------------------------------------------- specification: end to end
\* Messages are ingested as the clock runs and the generate command
\* summarises them, one call at a time.

\* on_message while no summary generation is waiting for the LLM.
QuietMessage ==
    /\ gen["manual"].pc = "idle"
    /\ OnMessage

EndToEndNext ==
    \/ IngestTick
    \/ QuietMessage
    \/ ManualGenerate
    \/ GenLlmReturn

SpecEndToEnd == IngestInit /\ [][EndToEndNext]_vars

\* ----------------------------------------------------- claims: end to end
\* The records of user u ingested on date d.
IngestedOn(u, d) ==
    Len(SelectSeq(chat_records,
            LAMBDA r : r.user_id = u /\ WrittenOn(r) = d))

\* C26: a summarize for (u, d) that gets text t from the LLM stores t with
\* the number of records ingested for u on d as message_count, and
\* get_daily_summary returns it; a summarize for a (u, d) that has a
\* summary returns the stored text and leaves the table unchanged.
EndToEndSummary ==
    [][\A u \in Users, d \in SummaryDates :
          /\ (/\ gen["manual"].pc = "llm"
              /\ gen["manual"].user_id = u
              /\ gen["manual"].date = d
              /\ gen'["manual"].pc = "idle"
              /\ gen'["manual"].result \in Texts
              /\ daily_summaries' # daily_summaries)
             => /\ HasSummary(u, d)'
                /\ GetDailySummary(u, d)'.summary_content
                      = gen'["manual"].result
                /\ GetDailySummary(u, d)'.message_count = IngestedOn(u, d)
          /\ \A db_ok \in BOOLEAN :
                (/\ HasSummary(u, d)
                 /\ gen["manual"].pc = "idle"
                 /\ GenerateDailySummary("manual", u, d, db_ok))
                => /\ gen'["manual"].result
                        = GetDailySummary(u, d).summary_content
                   /\ UNCHANGED daily_summaries]_vars

\* ---------------------------------------------- generate_summary command
\* What the command tells the user.  wait: the handler is suspended in the
\* LLM call.
SummaryFailures == {"not_allowed", "no_llm", "bad_date", "failed"}

\* `if summary:` at the end of the handler.
SummaryReply(frame) ==
    IF frame.pc = "llm" THEN "wait"
    ELSE IF Truthy(frame.result) THEN "done"
    ELSE "failed"

\* ----------------------------------------- specification: manual triggers
\* The post command and the generate command on a plugin that has posted
\* and summarised before.
TriggerDates == SummaryDates \cup {Malformed, NoDate}

TriggerInit ==
    /\ now = DayMinutes
    /\ tz = 0
    /\ config \in ManualConfigs
    /\ llm_client \in LlmKinds
    /\ chat_records \in SummaryChatTables
    /\ daily_summaries \in {<<>>, <<SummaryRow("u1", 0 - 1, "t2", 1)>>}
    /\ gen = [c \in GenCallers |-> GenIdle]
    /\ last_post_times = <<HourMinutes>>
    /\ auto_post = AutoPostStart
    /\ manual_post = ManualIdle
    /\ running = TRUE
    /\ LifeIdle
    /\ last_summary_date = 1
    /\ summary_loop = SummaryLoopStart
    /\ passes = <<>>
    /\ ai_summary = None
    /\ SweepIdle
    /\ AuxIdle

\* generate_summary(event, date) up to its first suspension; given is the
\* date argument (NoDate: none, yesterday is taken; Malformed: strptime
\* raises ValueError).
GenerateSummary ==
    /\ gen["manual"].pc = "idle"
    /\ \E u \in Users, given \in TriggerDates, db_ok \in BOOLEAN :
          IF ~IsUserInWhitelist(u)
          THEN /\ summary_cmd' = "not_allowed"
               /\ UNCHANGED <<gen, daily_summaries>>
          ELSE IF llm_client = "none"
          THEN /\ summary_cmd' = "no_llm"
               /\ UNCHANGED <<gen, daily_summaries>>
          ELSE IF given = Malformed
          THEN /\ summary_cmd' = "bad_date"
               /\ UNCHANGED <<gen, daily_summaries>>
          ELSE /\ GenerateDailySummary("manual", u,
                      IF given = NoDate THEN DateOf(LocalNow) - 1
                      ELSE given, db_ok)
               /\ summary_cmd' = SummaryReply(gen'["manual"])
    /\ UNCHANGED <<now, envVars, auxVars, loopVars, chat_records, postVars, lifeVars,
                   at, gateway, comment_loop, cleanup_loop>>

\* The LLM call of the generate command returns.
GenerateSummaryLlmReturn ==
    /\ gen["manual"].pc = "llm"
    /\ \E outcome \in LlmOutcomes, db_ok \in BOOLEAN :
          GenComplete("manual", gen["manual"].user_id, gen["manual"].date,
                      gen["manual"].count,
                      CallLlmForSummary("plugin", outcome), db_ok)
    /\ summary_cmd' = SummaryReply(gen'["manual"])
    /\ UNCHANGED <<now, envVars, auxVars, loopVars, chat_records, postVars, lifeVars,
                   at, gateway, comment_loop, cleanup_loop>>

TriggerNext ==
    \/ ManualPost
    \/ ManualPostLlmReturn
    \/ ManualPostPublishReturn
    \/ GenerateSummary
    \/ GenerateSummaryLlmReturn

SpecTrigger == TriggerInit /\ [][TriggerNext]_vars

\* ------------------------------------------------ claims: manual triggers
PostFailures == {"not_configured", "no_llm", "publish_failed"}

\* C27: a post command or generate command that fails answers with a
\* failure message and leaves last_post_times, last_summary_date, running,
\* chat_records and daily_summaries as they were.
FailedTriggerFrame ==
    [][/\ (manual_post' # manual_post /\ manual_post'.pc = "idle")
          => /\ manual_post'.reply \in PostFailures \cup {"published"}
             /\ manual_post'.reply \in PostFailures
                  => UNCHANGED <<last_post_times, last_summary_date,
                                 running, chat_records, daily_summaries>>
       /\ ((summary_cmd' # summary_cmd \/ gen' # gen)
              /\ summary_cmd' \in SummaryFailures)
          => UNCHANGED <<last_post_times, last_summary_date, running,
                         chat_records, daily_summaries>>
       /\ (gen["manual"].pc = "llm" /\ gen'["manual"].pc = "idle")
          => summary_cmd' \in SummaryFailures \cup {"done"}]_vars

\* C27 witness: the post command has failed at publishing generated
\* content and the generate command has failed after its LLM call; the
\* earlier post, the summary date and the stored rows are still there.
FailedTriggerWitness ==
    /\ manual_post.reply = "publish_failed"
    /\ summary_cmd = "failed"
    /\ gen["manual"].result = None
    /\ last_post_times = <<HourMinutes>>
    /\ last_summary_date = 1
    /\ daily_summaries = <<SummaryRow("u1", 0 - 1, "t2", 1)>>
    /\ Len(chat_records) = 2

\* ---------------------------------------- specification: without session
\* Loop B, Loop C and the gateway side by side, with and without a cookie.
DegradedConfigs ==
    {[DefaultConfig EXCEPT !.enable_auto_post = TRUE,
                           !.post_probability = 10,
                           !.enable_auto_comment = TRUE,
                           !.comment_probability = 10,
                           !.qq_cookies = k] : k \in {"", "cookie"}}

\* Replies to the one gateway request: a list of one post, with every
\* transport outcome.
DegradedReplies ==
    {r \in Replies : /\ r.msglist = <<"plain">>
                     /\ r.shape = "callback"
                     /\ r.code = 0
                     /\ r.params
                     /\ r.accepted}

DegradedInit ==
    /\ now = PostStart
    /\ tz = 0
    /\ config \in DegradedConfigs
    /\ llm_client = "provider"
    /\ chat_records = <<>>
    /\ daily_summaries = <<SummaryRow("u1", 0 - 1, "t1", 1)>>
    /\ gen = [c \in GenCallers |-> GenIdle]
    /\ last_post_times = <<>>
    /\ auto_post = AutoPostStart
    /\ manual_post = ManualIdle
    /\ running = TRUE
    /\ LifeIdle
    /\ LoopIdle
    /\ at = <<>>
    /\ gateway \in {[GatewayIdle EXCEPT !.reply = r] : r \in DegradedReplies}
    /\ comment_loop = CommentLoopStart
    /\ summary_cmd = "none"
    /\ cleanup_loop = [pc |-> "wake", purged |-> FALSE, sleep |-> 0,
                       polls |-> 0]
    /\ AuxIdle

DegradedNext ==
    \/ AutoPostWake
    \/ AutoPostLlmReturn
    \/ AutoPostPublishReturn
    \/ AutoPostSleepEndSoon
    \/ CommentLoopWake
    \/ CommentListReturn
    \/ CommentGenerateReturn
    \/ CommentCallReturn
    \/ CommentPostSleepEnd
    \/ CommentUserSleepEnd
    \/ ListRecent
    \/ Publish
    \/ Comment

SpecDegraded == DegradedInit /\ [][DegradedNext]_vars

\* ------------------------------------------------ claims: without session
\* C28: with no cookie configured, a tick of the auto-post loop and a sweep
\* of the auto-comment loop make no LLM call and no gateway call, leave
\* last_post_times unchanged and end in the loop's sleep; publish_dynamic
\* and comment_dynamic return false and get_recent_dynamics returns [].
DegradedWithoutSession ==
    [][config.qq_cookies = ""
       => /\ auto_post'.llm_calls = 0
          /\ auto_post'.publish_calls = 0
          /\ auto_post'.pc \in {"wake", "sleep"}
          /\ comment_loop'.list_calls = 0
          /\ comment_loop'.llm_calls = 0
          /\ comment_loop'.comments = <<>>
          /\ comment_loop'.pc \in {"wake", "sleep"}
          /\ last_post_times' = last_post_times
          /\ ~gateway'.ok
          /\ gateway'.listed = <<>>]_vars

\* C28 witness: no cookie; the auto-post loop is asleep after its second
\* tick, whose gate was open, the auto-comment loop is asleep after a
\* sweep, and a gateway request was made against a network that would
\* have answered.
DegradedWitness ==
    /\ config.qq_cookies = ""
    /\ now > PostStart
    /\ auto_post.pc = "sleep"
    /\ auto_post.gate = "pass"
    /\ comment_loop.pc = "sleep"
    /\ gateway.call = "list"
    /\ gateway.reply.transport = "ok"

\* ---------------------------------------------------------------- Loop D
\* asyncio.sleep(600), in minutes.
CleanupSleep == 10

\* A window that is the whole hour from 02:00.
InCleanupHour == TimeOfDay(LocalNow) \div HourMinutes = 2

\* now.hour == 2 and now.minute < 10
InCleanupWindow ==
    /\ TimeOfDay(LocalNow) \div HourMinutes = 2
    /\ TimeOfDay(LocalNow) % HourMinutes < 10

\* The frame of _cleanup_task.  purged: whether the last poll called
\* cleanup_old_data; polls: the polls so far.
CleanupLoopStart ==
    [pc |-> "wake", purged |-> FALSE, sleep |-> 0, polls |-> 0]

\* ------------------------------------------------ specification: Loop D
\* The cleanup loop polling through the night over a store that holds rows
\* old enough to be purged.

\* Minutes the loop is followed for.
CleanupMinutes == 50
\* 01:35 local time on day 2.
CleanupStart == 2 * DayMinutes + 95

CleanupInit ==
    /\ tz \in TzOffsets
    /\ now = CleanupStart - tz
    /\ config = DefaultConfig
    /\ llm_client = "provider"
    /\ chat_records \in {<<ChatRow("u1", 0)>>,
                         <<ChatRow("u1", 0), ChatRow("u1", 2 * DayMinutes)>>}
    /\ daily_summaries \in IngestSummaryTables
    /\ gen = [c \in GenCallers |-> GenIdle]
    /\ last_post_times = <<>>
    /\ auto_post = AutoPostStart
    /\ manual_post = ManualIdle
    /\ running = TRUE
    /\ LifeIdle
    /\ LoopIdle
    /\ at = <<>>
    /\ gateway = GatewayIdle
    /\ comment_loop = CommentLoopStart
    /\ summary_cmd = "none"
    /\ cleanup_loop = CleanupLoopStart
    /\ AuxIdle

\* One poll: lines 399-404, up to the sleep.
CleanupPoll ==
    /\ cleanup_loop.pc = "wake"
    /\ IF InCleanupWindow
       THEN \E db_ok \in BOOLEAN : CleanupOldData(db_ok)
       ELSE UNCHANGED <<chat_records, daily_summaries>>
    /\ cleanup_loop' = [cleanup_loop EXCEPT !.pc = "sleep",
                            !.purged = InCleanupWindow,
                            !.sleep = CleanupSleep, !.polls = @ + 1]
    /\ UNCHANGED <<now, envVars, auxVars, gen, postVars, lifeVars, loopVars, at,
                   gateway, comment_loop, summary_cmd>>

\* The sleep ends, on time or a minute late.
CleanupSleepEnd ==
    /\ cleanup_loop.pc = "sleep"
    /\ \E late \in {0, 1} :
          /\ now + cleanup_loop.sleep + late
                <= CleanupStart - tz + CleanupMinutes
          /\ now' = now + cleanup_loop.sleep + late
    /\ cleanup_loop' = [cleanup_loop EXCEPT !.pc = "wake", !.sleep = 0]
    /\ UNCHANGED <<envVars, auxVars, storeVars, gen, postVars, lifeVars, loopVars,
                   at, gateway, comment_loop, summary_cmd>>

\* A message comes in between two polls.
CleanupMessage ==
    /\ cleanup_loop.pc = "sleep"
    /\ OnMessage

CleanupNext ==
    \/ CleanupPoll
    \/ CleanupSleepEnd
    \/ CleanupMessage

SpecCleanup == CleanupInit /\ [][CleanupNext]_vars

\* ---------------------------------------------------------- claims: Loop D
\* C29: a poll of the cleanup loop calls cleanup_old_data only when the
\* local time is 02:00 to 02:09, leaves the store unchanged otherwise, and
\* is followed by the sleep of ten minutes.
CleanupWindow ==
    [][(cleanup_loop.pc = "wake" /\ cleanup_loop'.pc # "wake")
       => LET minute == (now + tz) % DayMinutes
          IN  /\ cleanup_loop'.pc = "sleep"
              /\ cleanup_loop'.sleep = 10
              /\ cleanup_loop'.purged => (120 <= minute /\ minute < 130)
              /\ ~(120 <= minute /\ minute < 130)
                    => UNCHANGED <<chat_records, daily_summaries>>]_vars

\* C29 witness: the loop has polled at least three times; the last poll
\* fell into the window and its purge emptied both tables.
CleanupWindowWitness ==
    /\ cleanup_loop.pc = "sleep"
    /\ cleanup_loop.purged
    /\ cleanup_loop.polls >= 3
    /\ chat_records = <<>>
    /\ daily_summaries = <<>>

\* ------------------------------------------------ specification: restart
\* Loop A over a store that outlives the process: the plugin is reloaded
\* while the loop sleeps, a new scheduler starts with last_summary_date
\* empty and the loop begins again.

\* Passes a run covers.
MaxPasses == 3

\* The process ends in a sleep of Loop A and a new one is constructed:
\* scheduler.py:20-23, then start().
Restart ==
    /\ summary_loop.pc = "sleep"
    /\ Len(passes) < MaxPasses
    /\ last_summary_date # NoDate
    /\ last_summary_date' = NoDate
    /\ summary_loop' = SummaryLoopStart
    /\ UNCHANGED <<now, envVars, auxVars, sweepVars, storeVars, gen, postVars,
                   lifeVars, passes, ai_summary>>

\* A pass starts only while the run has passes left.
BoundedLoopWake ==
    /\ Len(passes) < MaxPasses
    /\ SummaryLoopWake

RestartNext ==
    \/ BoundedLoopWake
    \/ SummaryLoopAttempt
    \/ SummaryLoopLlmReturn
    \/ SummaryLoopPassEnd
    \/ SummaryLoopSleepEnd
    \/ Restart

SpecRestart == LoopInit /\ [][RestartNext]_vars

\* --------------------------------------------------------- claims: restart
\* The rows stored for (u, d).
StoredFor(u, d) ==
    {i \in DOMAIN daily_summaries :
        /\ daily_summaries[i].user_id = u
        /\ daily_summaries[i].summary_date = d}

\* C30: when a pass of Loop A comes to a user whose summary for the date is
\* already stored, as in the pass repeated after a restart, no LLM call is
\* made, generate_daily_summary returns the stored content and the table is
\* left as it was.
RestartNoDuplicate ==
    [][\A u \in Users :
          (/\ summary_loop.pc = "pass"
           /\ summary_loop'.attempts = Append(summary_loop.attempts, u)
           /\ StoredFor(u, summary_loop.date) # {})
          => /\ gen'["loop_a"].pc = "idle"
             /\ summary_loop'.pc = "pass"
             /\ \E i \in StoredFor(u, summary_loop.date) :
                   gen'["loop_a"].result = daily_summaries[i].summary_content
             /\ daily_summaries' = daily_summaries]_vars

\* C30 witness: the second pass for the same day, which only a restart
\* allows, has got the stored summary of the first user back and stands
\* before the second user; the first pass wrote that summary.
RestartWitness ==
    /\ Len(passes) = 2
    /\ passes[1] = passes[2]
    /\ last_summary_date = NoDate
    /\ summary_loop.pc = "pass"
    /\ summary_loop.idx = 2
    /\ StoredFor("u1", summary_loop.date) # {}
    /\ gen["loop_a"].result \in Texts

\* ------------------------------------------------ claims: the time window
\* The local time of day lies in the configured window, both ends included.
WithinWindow ==
    /\ config.start_time <= TimeOfDay(LocalNow)
    /\ TimeOfDay(LocalNow) <= config.end_time

\* C31: a gate evaluation returns true only with the time of day inside
\* [start_time, end_time]; outside it the gate returns false whatever the
\* quota, the spacing and the draw, the iteration calls neither the LLM nor
\* publish_dynamic, and last_post_times stays as it is.
WindowGate ==
    /\ [](auto_post.gate = "pass" => WithinWindow)
    /\ []((auto_post.gate # "none" /\ ~WithinWindow)
            => /\ auto_post.gate = "block"
               /\ auto_post.llm_calls = 0
               /\ auto_post.publish_calls = 0)
    /\ [][last_post_times' # last_post_times => WithinWindow]_vars

\* C31 witness: a post went out at end_time itself, and a later evaluation
\* after the window closed was blocked although the quota and the spacing
\* would have let it through.
WindowGateWitness ==
    /\ auto_post.gate = "block"
    /\ ~WithinWindow
    /\ last_post_times # <<>>
    /\ TimeOfDay(MaxOf(last_post_times)) = config.end_time
    /\ PostsToday < config.daily_post_count
    /\ SinceLastPost >= config.min_interval_hours * HourMinutes

\* ------------------------------------------- specification: quota over runs
\* Loop B over several ticks of one evening, with quotas below and above the
\* ten entries last_post_times keeps.

QuotaConfigs ==
    {[DefaultConfig EXCEPT !.enable_auto_post = TRUE, !.daily_post_count = q,
          !.min_interval_hours = h, !.start_time = 0,
          !.end_time = DayMinutes - 1, !.user_whitelist = <<"u1", "u2">>] :
        q \in {1, 2, 11}, h \in {0, 1}}

\* The nine posts of the ticks from 15:30 to 19:30 are behind the run only
\* where the quota and the spacing allowed them.
QuotaInit ==
    /\ SweepIdle
    /\ now = PostStart
    /\ tz = 0
    /\ config \in QuotaConfigs
    /\ llm_client \in LlmKinds
    /\ chat_records = <<>>
    /\ daily_summaries \in PostSummaryTables
    /\ gen = [c \in GenCallers |-> GenIdle]
    /\ last_post_times \in
          IF config.daily_post_count = 11 /\ config.min_interval_hours = 0
          THEN {<<>>, EarlierPosts} ELSE {<<>>}
    /\ auto_post = AutoPostStart
    /\ manual_post = ManualIdle
    /\ running = TRUE
    /\ LifeIdle
    /\ LoopIdle
    /\ AuxIdle

QuotaNext ==
    \/ AutoPostWake
    \/ AutoPostLlmReturn
    \/ AutoPostPublishReturn
    \/ AutoPostSleepEndSoon

SpecQuota == QuotaInit /\ [][QuotaNext]_vars

\* --------------------------------------------- claims: quota over runs
\* Successful automatic publishes whose local date is d.
PublishedOn(d) ==
    Cardinality({i \in DOMAIN auto_published : DateOf(auto_published[i]) = d})

\* C32: on no calendar day does the number of successful automatic
\* publishes exceed daily_post_count, whatever the quota and the spacing.
DailyQuotaOverRuns ==
    \A i \in DOMAIN auto_published :
        PublishedOn(DateOf(auto_published[i])) <= config.daily_post_count

\* ------------------------------------------ specification: calls take time
\* Loop B with LLM and publish calls that last: the clock moves between the
\* gate evaluation and the append to last_post_times.

\* Minutes the run covers.
SpacingMinutes == 200
\* Minutes a suspended call may take before it is looked at again.
CallMinutes == {5, 40}

SpacingConfigs ==
    {[DefaultConfig EXCEPT !.enable_auto_post = TRUE, !.daily_post_count = 3,
          !.min_interval_hours = h, !.start_time = 0,
          !.end_time = DayMinutes - 1, !.user_whitelist = <<"u1", "u2">>] :
        h \in {1, 2}}

SpacingInit ==
    /\ SweepIdle
    /\ now = PostStart
    /\ tz = 0
    /\ config \in SpacingConfigs
    /\ llm_client = "provider"
    /\ chat_records = <<>>
    /\ daily_summaries \in PostSummaryTables
    /\ gen = [c \in GenCallers |-> GenIdle]
    /\ last_post_times = <<>>
    /\ auto_post = AutoPostStart
    /\ manual_post = ManualIdle
    /\ running = TRUE
    /\ LifeIdle
    /\ LoopIdle
    /\ AuxIdle

\* Time passes while Loop B is suspended in provider.text_chat or in
\* publish_dynamic.
AutoPostCallRuns ==
    /\ auto_post.pc \in {"llm", "publish"}
    /\ \E d \in CallMinutes :
          /\ now + d <= PostStart + SpacingMinutes
          /\ now' = now + d
    /\ UNCHANGED <<envVars, auxVars, sweepVars, loopVars, storeVars, gen,
                   postVars, lifeVars>>

\* The sleep of Loop B ends.
AutoPostSleepEndWithin ==
    /\ AutoPostSleepEndBy(PostStart + SpacingMinutes)
    /\ UNCHANGED <<envVars, auxVars, sweepVars, loopVars, storeVars, gen,
                   last_post_times, manual_post, lifeVars>>

SpacingNext ==
    \/ AutoPostWake
    \/ AutoPostCallRuns
    \/ AutoPostLlmReturn
    \/ AutoPostPublishReturn
    \/ AutoPostSleepEndWithin

SpecSpacing == SpacingInit /\ [][SpacingNext]_vars

\* --------------------------------------------- claims: spacing over runs
\* C33: any two consecutive entries of last_post_times are at least
\* min_interval_hours apart, however long the LLM and publish calls took.
SpacingOverRuns ==
    \A i \in DOMAIN last_post_times :
        i > 1 => last_post_times[i] - last_post_times[i - 1]
                    >= config.min_interval_hours * HourMinutes

\* C33 witness: a second publish was recorded after calls that took time
\* (its timestamp is off the 30-minute grid of the first tick), at the
\* first tick the spacing let through.
SpacingOverRunsWitness ==
    /\ Len(last_post_times) >= 2
    /\ auto_post.published = "yes"
    /\ (last_post_times[2] - last_post_times[1]) % PostSleep # 0
    /\ last_post_times[2] - last_post_times[1]
          < config.min_interval_hours * HourMinutes + PostSleep + 40

\* ------------------------------------------- specification: a whole day
\* Loop A from 23:50 of day 0 through the whole of day 1 into day 2.

\* Minutes the run covers: up to 00:05 of day 2.
DayLongMinutes == 1455
DayLongEnd == LoopStart + DayLongMinutes

\* summary_time: midnight, noon, 23:58.
DayLongConfigs ==
    {[DefaultConfig EXCEPT !.enable_memory = TRUE, !.summary_time = s,
          !.user_whitelist = <<"u1", "u2">>] :
        s \in {0, 12 * HourMinutes, DayMinutes - 2}}

DayLongInit ==
    /\ SweepIdle
    /\ now = LoopStart
    /\ tz = 0
    /\ config \in DayLongConfigs
    /\ llm_client \in LlmKinds
    /\ chat_records \in LoopChatTables
    /\ daily_summaries = <<>>
    /\ gen = [c \in GenCallers |-> GenIdle]
    /\ last_post_times = <<>>
    /\ auto_post = AutoPostStart
    /\ manual_post = ManualIdle
    /\ running = TRUE
    /\ LifeIdle
    /\ LoopIdle
    /\ AuxIdle

\* The LLM call of the pass returns, at once or five minutes later.
DayLongLlmReturn ==
    /\ summary_loop.pc = "llm"
    /\ \E outcome \in LlmOutcomes, db_ok \in BOOLEAN :
          GenComplete("loop_a", gen["loop_a"].user_id, gen["loop_a"].date,
                      gen["loop_a"].count,
                      CallLlmForSummary(ClientOf("loop_a"), outcome), db_ok)
    /\ summary_loop' = PassAdvance(summary_loop, gen'["loop_a"].result)
    /\ \E dt \in {0, SummarySleep} :
          /\ now + dt <= DayLongEnd
          /\ now' = now + dt
    /\ UNCHANGED <<envVars, auxVars, sweepVars, chat_records, postVars,
                   lifeVars, last_summary_date, passes, ai_summary>>

\* The sleep of Loop A ends.
DayLongSleepEnd ==
    /\ summary_loop.pc = "sleep"
    /\ now + summary_loop.sleep <= DayLongEnd
    /\ now' = now + summary_loop.sleep
    /\ summary_loop' = SummaryLoopStart
    /\ UNCHANGED <<envVars, auxVars, sweepVars, storeVars, gen, postVars,
                   lifeVars, last_summary_date, passes, ai_summary>>

DayLongNext ==
    \/ SummaryLoopWake
    \/ SummaryLoopAttempt
    \/ DayLongLlmReturn
    \/ SummaryLoopPassEnd
    \/ DayLongSleepEnd

SpecDayLong == DayLongInit /\ [][DayLongNext]_vars

\* --------------------------------------------- claims: summary liveness
\* The pass was started on local day d.
PassedOn(d) == \E i \in DOMAIN passes : passes[i] = d

\* C34: once Loop A, running since day 0, polls on day 2, it has performed
\* the daily summary pass on day 1, whatever the valid summary_time.
SummaryEveryDay ==
    (DateOf(LocalNow) >= 2 /\ summary_loop.pc = "sleep") => PassedOn(1)

\* ------------------------------------------- specification: cleanup night
\* Loop D through the 02:00 window, the scheduler having been started at
\* any minute from 01:35 to 01:44 local time.

\* Minutes after 01:35 at which start() may have run.
StartPhases == 0 .. 9

NightInit ==
    /\ tz \in TzOffsets
    /\ now \in {CleanupStart - tz + p : p \in StartPhases}
    /\ config = DefaultConfig
    /\ llm_client = "provider"
    /\ chat_records \in {<<ChatRow("u1", 0)>>,
                         <<ChatRow("u1", 0), ChatRow("u1", 2 * DayMinutes)>>}
    /\ daily_summaries \in IngestSummaryTables
    /\ gen = [c \in GenCallers |-> GenIdle]
    /\ last_post_times = <<>>
    /\ auto_post = AutoPostStart
    /\ manual_post = ManualIdle
    /\ running = TRUE
    /\ LifeIdle
    /\ LoopIdle
    /\ at = <<>>
    /\ gateway = GatewayIdle
    /\ comment_loop = CommentLoopStart
    /\ summary_cmd = "none"
    /\ cleanup_loop = CleanupLoopStart
    /\ AuxIdle

SpecNight == NightInit /\ [][CleanupNext]_vars

\* --------------------------------------------- claims: cleanup liveness
\* C35: when Loop D, running since before 02:00, wakes for its first poll
\* after the window (02:10 to 02:19 local time), its previous poll called
\* cleanup_old_data.
CleanupEveryNight ==
    (/\ cleanup_loop.pc = "wake"
     /\ cleanup_loop.polls >= 1
     /\ 130 <= TimeOfDay(LocalNow)
     /\ TimeOfDay(LocalNow) < 140)
    => cleanup_loop.purged

\* ------------------------------------------ specification: plugin lifetime
\* The plugin object from its constructor to terminate().  background.start
\* is the position of the _start_background_tasks task (delay: created, in
\* or before its sleep of two seconds; done), background.terminate that of
\* terminate() (none, stop: suspended in scheduler.stop(), returned).

\* main.py:45-46: the constructor has created the task and returned.
PluginInit ==
    /\ SweepIdle
    /\ now = 0
    /\ tz = 0
    /\ config = DefaultConfig
    /\ llm_client = "provider"
    /\ chat_records = <<>>
    /\ daily_summaries = <<>>
    /\ gen = [c \in GenCallers |-> GenIdle]
    /\ last_post_times = <<>>
    /\ auto_post = AutoPostStart
    /\ manual_post = ManualIdle
    /\ running = FALSE
    /\ LifeIdle
    /\ LoopIdle
    /\ auto_published = <<>>
    /\ background = [start |-> "delay", terminate |-> "none"]
    /\ post_scheduler = PostSchedulerNew

\* main.py:109-110: the sleep of two seconds ends and scheduler.start()
\* runs; nothing cancels this task.
BackgroundStart ==
    /\ background.start = "delay"
    /\ Start
    /\ background' = [background EXCEPT !.start = "done"]
    /\ UNCHANGED <<now, envVars, sweepVars, loopVars, storeVars, gen,
                   postVars, stop_call, stop_returns, auto_published,
                   post_scheduler>>

\* main.py:480-489: the host calls terminate(); scheduler.stop() runs up to
\* its gather, or to its end when there is no task, and close_session and
\* the return follow.
Terminate ==
    /\ background.terminate = "none"
    /\ StopBegin
    /\ background' = [background EXCEPT !.terminate =
                          IF tasks # <<>> THEN "stop" ELSE "returned"]
    /\ UNCHANGED <<now, envVars, sweepVars, loopVars, storeVars, gen,
                   postVars, auto_published, post_scheduler>>

\* The gather of the suspended stop() completes; terminate() goes on to
\* close_session and returns.
TerminateReturn ==
    /\ background.terminate = "stop"
    /\ stop_call.pc = "gather"
    /\ StopEnd
    /\ background' = [background EXCEPT !.terminate = "returned"]
    /\ UNCHANGED <<now, envVars, sweepVars, loopVars, storeVars, gen,
                   postVars, auto_published, post_scheduler>>

PluginNext ==
    \/ BackgroundStart
    \/ Terminate
    \/ TerminateReturn
    \/ TaskStep
    \/ TaskCancelled

SpecPlugin == PluginInit /\ [][PluginNext]_vars

\* --------------------------------------------- claims: plugin teardown
\* C36: once terminate() has returned, running is false and no scheduler
\* loop task exists, also when terminate() was called during the delay
\* before the background start().
TeardownFinal ==
    background.terminate = "returned"
    => /\ ~running
       /\ \A t \in DOMAIN spawned : spawned[t].pc = "done"

\* ------------------------------------- specification: commands and Loop B
\* Loop B over several ticks with the post and postimg commands beside it.

\* main.py:271-277: the captions of _generate_image_caption.
Captions == {"caption1", "caption2", "caption3", "caption4", "caption5"}

CommandConfigs ==
    {[DefaultConfig EXCEPT !.enable_auto_post = TRUE, !.daily_post_count = q,
          !.min_interval_hours = h, !.start_time = 0,
          !.end_time = DayMinutes - 1, !.qq_cookies = k,
          !.user_whitelist = <<"u1", "u2">>] :
        q \in {1, 2}, h \in {1}, k \in {"", "cookie"}}

CommandInit ==
    /\ SweepIdle
    /\ now = PostStart
    /\ tz = 0
    /\ config \in CommandConfigs
    /\ llm_client \in LlmKinds
    /\ chat_records = <<>>
    /\ daily_summaries \in PostSummaryTables
    /\ gen = [c \in GenCallers |-> GenIdle]
    /\ last_post_times = <<>>
    /\ auto_post = AutoPostStart
    /\ manual_post = ManualIdle
    /\ running = TRUE
    /\ LifeIdle
    /\ LoopIdle
    /\ AuxIdle

\* The postimg command arrives.
PostWithImages ==
    /\ manual_post.pc = "idle"
    /\ \E given \in {"", "text"}, images \in BOOLEAN, caption \in Captions :
          manual_post' = PostWithImagesBody(given, images, caption)
    /\ UNCHANGED <<now, envVars, auxVars, sweepVars, loopVars, storeVars, gen,
                   last_post_times, auto_post, lifeVars>>

CommandNext ==
    \/ AutoPostWake
    \/ AutoPostLlmReturn
    \/ AutoPostPublishReturn
    \/ AutoPostSleepEndSoon
    \/ ManualPost
    \/ ManualPostLlmReturn
    \/ ManualPostPublishReturn
    \/ PostWithImages

SpecCommand == CommandInit /\ [][CommandNext]_vars

\* --------------------------------------------- claims: manual posts
\* C37: no step of the post or postimg command changes last_post_times, so
\* the list, and with it the quota count and the spacing reference of the
\* gate, holds the automatic publishes and nothing else.
ManualInvisible ==
    /\ [][manual_post' # manual_post
            => last_post_times' = last_post_times]_vars
    /\ [](last_post_times = auto_published)

\* C37 witness: with a quota of one, a command has published and Loop B has
\* published as well; the list holds the automatic publish alone.
ManualInvisibleWitness ==
    /\ config.daily_post_count = 1
    /\ manual_post.reply = "published"
    /\ auto_post.published = "yes"
    /\ Len(last_post_times) = 1

\* --------------------------------------------- claims: no same-day retry
\* The table holds a summary row of user u and date d.
RowIn(table, u, d) ==
    \E i \in DOMAIN table :
        /\ table[i].user_id = u
        /\ table[i].summary_date = d

\* C38: once a pass has been recorded in last_summary_date, Loop A makes no
\* further attempt for the date that pass was about (the day before), and a
\* summary of that date that is missing stays missing, whatever the pass
\* returned for each user.
NoSameDayRetry ==
    [][last_summary_date # NoDate
        => /\ summary_loop'.pc \in {"pass", "llm"}
                => summary_loop'.date # last_summary_date - 1
           /\ \A u \in Users :
                ~RowIn(daily_summaries, u, last_summary_date - 1)
                    => ~RowIn(daily_summaries', u,
                              last_summary_date - 1)]_vars

\* C38 witness: the pass of day 1 is recorded, u1 wrote on day 0 and has no
\* summary of it, and Loop A has polled again since without a pass.
NoSameDayRetryWitness ==
    /\ last_summary_date = 1
    /\ DateOf(LocalNow) = 1
    /\ summary_loop.pc = "sleep"
    /\ summary_loop.today = NoDate
    /\ GetMessagesByDate("u1", 0) # <<>>
    /\ ~RowIn(daily_summaries, "u1", 0)

\* ----------------------------------------------------------- PostScheduler
\* ai_generator.py:140-273.  post_scheduler.jobs holds every asyncio task
\* the object created, by task id: kind (daily: the daily_schedule loop,
\* post: one schedule_post), pc (new: created, not yet run; wait: in the
\* sleep up to the summary time or the post time; day: in the sleep of 24
\* hours; callback: inside post_callback; done), due (the local time its
\* sleep ends), cancel (task.cancel() was called and the CancelledError is
\* still to be thrown).  plans records the plans made (task, time, posts),
\* calls the callbacks invoked (task, time, running and the position of
\* stop_scheduler at that moment).

\* memory_summary_time, default '23:00'.
PsSummaryTime == 1380
\* schedule_time, default '09:00-22:00'.
PsWindowStart == 540
PsWindowEnd == 1320
\* max_posts_per_day, default 3.
PsMaxPosts == 3

PsJob(kind, due) == [kind |-> kind, pc |-> "new", due |-> due,
                     cancel |-> FALSE]

\* The first instant at or after midnight of the day of t with time of day
\* m that is later than t: now.replace(...) and `if ... <= now: + 1 day`.
NextAt(m, t) ==
    IF DateOf(t) * DayMinutes + m <= t
    THEN (DateOf(t) + 1) * DayMinutes + m
    ELSE DateOf(t) * DayMinutes + m

\* wait_until_summary_time: the time it sleeps until.
SummaryDue == NextAt(PsSummaryTime, LocalNow)

\* get_random_post_time: the ends of the range random.randint draws from.
PostTimes ==
    {NextAt(PsWindowStart, LocalNow),
     NextAt(PsWindowStart, LocalNow) + (PsWindowEnd - PsWindowStart)}

\* get_today_post_count and the for loop: the plans that can be drawn, up
\* to the order in which the drawn times come.
PostPlans ==
    {plan \in UNION {[1 .. n -> PostTimes] : n \in 1 .. PsMaxPosts} :
        \A i, k \in DOMAIN plan : i < k => plan[i] <= plan[k]}

\* A plan whose post tasks are not kept in self.tasks.
Untracked(list, ids) == list

\* self.tasks.append(task), for each schedule_post task of the plan.
Tracked(list, ids) == list \o ids

\* start_scheduler: lines 190 and 225-227.
PsStartScheduler ==
    [post_scheduler EXCEPT
        !.running = TRUE,
        !.jobs = Append(@, PsJob("daily", LocalNow)),
        !.tasks = Append(@, Len(post_scheduler.jobs) + 1),
        !.stop = "idle"]

\* The daily loop at its `while self.running` test: it leaves, or goes
\* into wait_until_summary_time.
PsLoopTop(j) ==
    IF post_scheduler.running
    THEN [post_scheduler EXCEPT !.jobs[j].pc = "wait",
                                !.jobs[j].due = SummaryDue]
    ELSE [post_scheduler EXCEPT !.jobs[j].pc = "done"]

\* Lines 199-219: after the wait, the plan and the sleep of 24 hours.
PsPlan(j, plan) ==
    IF ~post_scheduler.running
    THEN [post_scheduler EXCEPT !.jobs[j].pc = "done"]
    ELSE [post_scheduler EXCEPT
             !.jobs = [@ EXCEPT ![j].pc = "day",
                                ![j].due = LocalNow + DayMinutes]
                      \o [i \in DOMAIN plan |-> PsJob("post", plan[i])],
             !.tasks = Tracked(@, [i \in DOMAIN plan |->
                                      Len(post_scheduler.jobs) + i]),
             !.plans = Append(@, [job |-> j, at |-> LocalNow,
                                  count |-> Len(plan)])]

\* schedule_post once its wait is over (or was not needed): lines 255-259.
PsPostFire(j) ==
    IF post_scheduler.running
    THEN [post_scheduler EXCEPT
             !.jobs[j].pc = "callback",
             !.calls = Append(@, [job |-> j, at |-> LocalNow,
                                  running |-> post_scheduler.running,
                                  stop |-> post_scheduler.stop])]
    ELSE [post_scheduler EXCEPT !.jobs[j].pc = "done"]

\* schedule_post from its start: lines 249-253.
PsPostBegin(j) ==
    IF post_scheduler.jobs[j].due - LocalNow > 0
    THEN [post_scheduler EXCEPT !.jobs[j].pc = "wait"]
    ELSE PsPostFire(j)

\* stop_scheduler up to its gather: lines 263-271; with no task, all of
\* it.
PsStopScheduler ==
    [post_scheduler EXCEPT
        !.running = FALSE,
        !.jobs = [j \in DOMAIN post_scheduler.jobs |->
                    IF /\ \E i \in DOMAIN post_scheduler.tasks :
                             post_scheduler.tasks[i] = j
                       /\ post_scheduler.jobs[j].pc # "done"
                    THEN [post_scheduler.jobs[j] EXCEPT !.cancel = TRUE]
                    ELSE post_scheduler.jobs[j]],
        !.stop = IF post_scheduler.tasks # <<>> THEN "gather"
                 ELSE "returned"]

\* A job the event loop can resume before the clock moves on: cancelled,
\* new, in a callback (which returns before the next sleep ends), or in a
\* sleep that is over.
PsReady(j) ==
    LET job == post_scheduler.jobs[j]
    IN  /\ job.pc # "done"
        /\ \/ job.cancel
           \/ job.pc \in {"new", "callback"}
           \/ job.pc \in {"wait", "day"} /\ job.due <= LocalNow

\* The event loop resumes ready tasks in the order they were created.
PsNext(j) ==
    /\ PsReady(j)
    /\ \A k \in DOMAIN post_scheduler.jobs : PsReady(k) => j <= k

\* ------------------------------------------ specification: PostScheduler
\* start_scheduler and stop_scheduler called one after the other, from
\* 22:00 of day 0 to the evening of day 1.

\* start_scheduler calls.
MaxSchedulerStarts == 2
\* Minutes the run covers.
SchedulerMinutes == 1500
SchedulerStart == 22 * HourMinutes

SchedulerInit ==
    /\ SweepIdle
    /\ now = SchedulerStart
    /\ tz = 0
    /\ config = DefaultConfig
    /\ llm_client = "provider"
    /\ chat_records = <<>>
    /\ daily_summaries = <<>>
    /\ gen = [c \in GenCallers |-> GenIdle]
    /\ last_post_times = <<>>
    /\ auto_post = AutoPostStart
    /\ manual_post = ManualIdle
    /\ running = FALSE
    /\ LifeIdle
    /\ LoopIdle
    /\ AuxIdle

PsFrame == <<envVars, storeVars, gen, postVars, lifeVars, loopVars,
             sweepVars, auto_published, background>>

\* The host calls start_scheduler while no stop_scheduler is in progress.
PsStart ==
    /\ post_scheduler.stop # "gather"
    /\ Cardinality({j \in DOMAIN post_scheduler.jobs :
                       post_scheduler.jobs[j].kind = "daily"})
          < MaxSchedulerStarts
    /\ post_scheduler' = PsStartScheduler
    /\ UNCHANGED <<now, PsFrame>>

\* The daily loop runs for the first time, or its sleep of 24 hours ends.
PsDailyTop ==
    /\ \E j \in DOMAIN post_scheduler.jobs :
          /\ post_scheduler.jobs[j].kind = "daily"
          /\ post_scheduler.jobs[j].pc \in {"new", "day"}
          /\ PsNext(j)
          /\ ~post_scheduler.jobs[j].cancel
          /\ post_scheduler' = PsLoopTop(j)
    /\ UNCHANGED <<now, PsFrame>>

\* wait_until_summary_time returns and the plan is made.
PsDailyPlan ==
    /\ \E j \in DOMAIN post_scheduler.jobs :
          /\ post_scheduler.jobs[j].kind = "daily"
          /\ post_scheduler.jobs[j].pc = "wait"
          /\ PsNext(j)
          /\ ~post_scheduler.jobs[j].cancel
          /\ \E plan \in PostPlans : post_scheduler' = PsPlan(j, plan)
    /\ UNCHANGED <<now, PsFrame>>

\* A schedule_post task runs for the first time.
PsPostStart ==
    /\ \E j \in DOMAIN post_scheduler.jobs :
          /\ post_scheduler.jobs[j].kind = "post"
          /\ post_scheduler.jobs[j].pc = "new"
          /\ PsNext(j)
          /\ ~post_scheduler.jobs[j].cancel
          /\ post_scheduler' = PsPostBegin(j)
    /\ UNCHANGED <<now, PsFrame>>

\* The wait of a schedule_post task ends.
PsPostDue ==
    /\ \E j \in DOMAIN post_scheduler.jobs :
          /\ post_scheduler.jobs[j].kind = "post"
          /\ post_scheduler.jobs[j].pc = "wait"
          /\ PsNext(j)
          /\ ~post_scheduler.jobs[j].cancel
          /\ post_scheduler' = PsPostFire(j)
    /\ UNCHANGED <<now, PsFrame>>

\* post_callback returns or raises an exception.
PsCallbackReturn ==
    /\ \E j \in DOMAIN post_scheduler.jobs :
          /\ post_scheduler.jobs[j].pc = "callback"
          /\ PsNext(j)
          /\ ~post_scheduler.jobs[j].cancel
          /\ post_scheduler' =
                [post_scheduler EXCEPT !.jobs[j].pc = "done"]
    /\ UNCHANGED <<now, PsFrame>>

\* The host calls stop_scheduler.
PsStop ==
    /\ post_scheduler.stop = "idle"
    /\ post_scheduler' =
          IF post_scheduler.tasks # <<>> THEN PsStopScheduler
          ELSE [PsStopScheduler EXCEPT !.tasks = <<>>]
    /\ UNCHANGED <<now, PsFrame>>

\* The CancelledError is thrown into a cancelled task; no handler of
\* daily_schedule or schedule_post catches it.
PsCancelled ==
    /\ \E j \in DOMAIN post_scheduler.jobs :
          /\ PsNext(j)
          /\ post_scheduler.jobs[j].cancel
          /\ post_scheduler' =
                [post_scheduler EXCEPT !.jobs[j].pc = "done",
                                       !.jobs[j].cancel = FALSE]
    /\ UNCHANGED <<now, PsFrame>>

\* The gather of stop_scheduler completes: lines 270-273.
PsStopReturn ==
    /\ post_scheduler.stop = "gather"
    /\ \A i \in DOMAIN post_scheduler.tasks :
          post_scheduler.jobs[post_scheduler.tasks[i]].pc = "done"
    /\ post_scheduler' = [post_scheduler EXCEPT !.tasks = <<>>,
                                                !.stop = "returned"]
    /\ UNCHANGED <<now, PsFrame>>

\* Nothing is ready: the clock moves to the next time a sleep ends, in a
\* run that lasts until local time `limit`.
PsTickBy(limit) ==
    /\ \A j \in DOMAIN post_scheduler.jobs : ~PsReady(j)
    /\ \E j \in DOMAIN post_scheduler.jobs :
          /\ post_scheduler.jobs[j].pc \in {"wait", "day"}
          /\ \A k \in DOMAIN post_scheduler.jobs :
                post_scheduler.jobs[k].pc \in {"wait", "day"}
                   => post_scheduler.jobs[j].due <= post_scheduler.jobs[k].due
          /\ post_scheduler.jobs[j].due <= limit
          /\ now' = post_scheduler.jobs[j].due - tz

\* The clock moves to the next time a sleep ends.
PsTick ==
    /\ PsTickBy(SchedulerStart + SchedulerMinutes)
    /\ UNCHANGED <<PsFrame, post_scheduler>>

SchedulerNext ==
    \/ PsStart
    \/ PsDailyTop
    \/ PsDailyPlan
    \/ PsPostStart
    \/ PsPostDue
    \/ PsCallbackReturn
    \/ PsStop
    \/ PsCancelled
    \/ PsStopReturn
    \/ PsTick

SpecScheduler == SchedulerInit /\ [][SchedulerNext]_vars

CadenceMinutes == 4500

\* The host calls start_scheduler, once.
PsStartOnce ==
    /\ post_scheduler.jobs = <<>>
    /\ post_scheduler' = PsStartScheduler
    /\ UNCHANGED <<now, PsFrame>>

\* The clock moves to the next time a sleep ends.
PsTickDays ==
    /\ PsTickBy(SchedulerStart + CadenceMinutes)
    /\ UNCHANGED <<PsFrame, post_scheduler>>

CadenceNext ==
    \/ PsStartOnce
    \/ PsDailyTop
    \/ PsDailyPlan
    \/ PsPostStart
    \/ PsPostDue
    \/ PsCallbackReturn
    \/ PsTickDays

SpecCadence == SchedulerInit /\ [][CadenceNext]_vars

\* --------------------------------------------- claims: PostScheduler days
\* C40: each plan holds 1 to max_posts_per_day posts and is made at the
\* summary time, and two successive plans of a daily loop are one day
\* apart.
DailyCadence ==
    \A i \in DOMAIN post_scheduler.plans :
        LET p == post_scheduler.plans[i]
        IN  /\ 1 <= p.count /\ p.count <= PsMaxPosts
            /\ TimeOfDay(p.at) = PsSummaryTime
            /\ \A k \in DOMAIN post_scheduler.plans :
                  (/\ k > i
                   /\ post_scheduler.plans[k].job = p.job
                   /\ \A m \in (i + 1) .. (k - 1) :
                         post_scheduler.plans[m].job # p.job)
                  => post_scheduler.plans[k].at - p.at = DayMinutes

====
